---- MODULE Spec2Model ----
(***************************************************************************)
(* Simulation and control kernel of the manufacturing-line digital twin:   *)
(* the machine state-machine framework (BaseMachine and its three          *)
(* subclasses), the first-order furnace physics, the fixed-timestep        *)
(* SimulationEngine and the ProductionOrchestrator.                        *)
(*                                                                         *)
(* Units.  Times are integer milliseconds (time_step = 0.2 s = 200).       *)
(* Temperatures are integer milli-degrees Celsius.  A machine's progress   *)
(* is kept as the processing time accumulated by the current item, in ms:  *)
(* the source's percentage is 100 * progress / cycle_time, and its test    *)
(* "progress >= 100.0" is "progress >= cycle_time" here.                   *)
(***************************************************************************)
EXTENDS Integers, Sequences, FiniteSets, TLC

VARIABLES
  machines,     \* machine id -> machine object (the engine's collection)
  orch,         \* the ProductionOrchestrator, or NoOrch before its lazy creation
  ticks,        \* SimulationEngine.ticks
  sim_time,     \* SimulationEngine.sim_time, ms
  power_state,  \* VirtualPLC.power_state, the engine's run predicate
  last,         \* the most recent call: operation, target, returned value, trail
  ncmd,         \* effective external commands so far: machine commands, power changes
  drv,          \* single-machine driver: tick() calls made and items handed over
  twin,         \* the second run of the replay specification
  snapshots,    \* the maps get_wip_state() and get_kpis() have returned so far
  flow,         \* the MaterialFlowEngine with its EventDispatcher and CounterSystem
  physics       \* the physics model under test in the physics specifications

vars == <<machines, orch, ticks, sim_time, power_state, last, ncmd, drv, twin,
          snapshots, flow, physics>>

(***************************************************************************)
(* Bounds of the model.                                                    *)
(***************************************************************************)
\* engine steps explored by the line specification
MaxTicks == 14
\* external machine commands that change a machine, in the line specification
MaxCmds == 1
\* PLC power changes (OFF to RUNNING, RUNNING to OFF)
MaxPowerChanges == 2
\* tick() calls explored by the single-machine specification
MaxMachineTicks == 5
\* items handed to the machine under test by the single-machine specification
MaxItems == 2
\* engine steps explored by the batch specification
MaxBatchTicks == 34
\* engine steps taken by each of the two runs of the replay specification
MaxReplayTicks == 15
\* engine steps explored for a hand-assembled machine collection
MaxPartialTicks == 12
\* engine steps explored by the accessor specification
MaxSnapTicks == 6
\* maps handed out by get_wip_state() and get_kpis()
MaxSnapshots == 2
\* writes a client makes into one returned map
MaxSnapshotWrites == 1
\* events emitted in the flow specifications
MaxEvents == 3
\* callbacks a client subscribes in the event specification
MaxSubscriptions == 2
\* direct calls of CounterSystem operations in the counter specification
MaxCounterOps == 2
\* values written to device input nodes, and scans that step, in the scan specification
MaxNodeWrites == 2
MaxScanTicks == 8
\* steps of the line that is kept running, and the steps a unit may take to cross it
MaxLineTicks == 32
LineLatency == 22
\* the units followed through the line
MaxUnits == 4
\* events emitted with a part in the WIP specification
MaxPartEvents == 3
\* step() calls made on a thermal physics model (furnace, cooling)
MaxPhysicsSteps == 5
\* the factory's cycle times are divided by this factor (10 s becomes 0.4 s)
CycleScale == 25
\* the factory's target temperatures are divided by this factor (750 C becomes 50 C)
ThermalScale == 15

(***************************************************************************)
(* Machine configuration (factory.py).                                     *)
(***************************************************************************)
\* the machines the orchestrator drives, in the order the factory adds them
MachineOrder ==
  <<"m_furnace", "m_degasser", "m_lpdc", "m_heat", "m_cnc", "m_inspect",
    "m_paint1", "m_pack", "m_outbound">>

MachineIds == {MachineOrder[i] : i \in 1..Len(MachineOrder)}

Kind(id) ==
  IF id \in {"m_furnace", "m_heat"} THEN "thermal"
  ELSE IF id = "m_inspect" THEN "inspection"
  ELSE "simple"

role(id) ==
  IF id = "m_lpdc" THEN "casting"
  ELSE IF id = "m_cnc" THEN "machining"
  ELSE "generic"

has_pour(id) == id = "m_lpdc"

has_trigger(id) == id = "m_cnc"

\* cycle time in ms: the factory's value divided by CycleScale
cycle_time(id) ==
  (CASE id = "m_furnace"  -> 10000
     [] id = "m_degasser" -> 8000
     [] id = "m_lpdc"     -> 15000
     [] id = "m_heat"     -> 12000
     [] id = "m_cnc"      -> 10000
     [] id = "m_inspect"  -> 6000
     [] id = "m_paint1"   -> 8000
     [] id = "m_pack"     -> 4000
     [] id = "m_outbound" -> 2000) \div CycleScale

\* target temperature in milli-degrees: the factory's value divided by ThermalScale
target_temp(id) ==
  (CASE id = "m_furnace" -> 750000
     [] id = "m_heat"    -> 500000
     [] OTHER            -> 0) \div ThermalScale

is_cooling_tank(id) == FALSE

\* SimulationEngine.time_step, ms
time_step == 200

(***************************************************************************)
(* FurnacePhysics (furnace_physics.py), fixed point in milli-degrees.      *)
(***************************************************************************)
T_ambient == 20000
C_thermal == 50000
k_loss == 80
P_max == 1500000
max_ramp_rate == 50000
T_max == 900000
T_min == 20000
\* ThermalMachine._detect_fault threshold, milli-degrees
OverTempLimit == 1200000

Max2(a, b) == IF a >= b THEN a ELSE b
Min2(a, b) == IF a <= b THEN a ELSE b

\* a physics step without the limits on the temperature
PhysicsStep_unlimited(T, pct, dt) ==
  LET p        == Max2(0, Min2(100, pct))
      power_in == (p * P_max) \div 100
      raw      == (1000 * power_in - k_loss * (T - T_ambient)) \div C_thermal
      dT_dt    == Max2(-max_ramp_rate, Min2(max_ramp_rate, raw))
  IN  T + (dT_dt * dt) \div 1000

\* a physics step whose upper limit lies above the over-temperature threshold
PhysicsStep_limit_above_threshold(T, pct, dt) ==
  LET p        == Max2(0, Min2(100, pct))
      power_in == (p * P_max) \div 100
      raw      == (1000 * power_in - k_loss * (T - T_ambient)) \div C_thermal
      dT_dt    == Max2(-max_ramp_rate, Min2(max_ramp_rate, raw))
      Tn       == T + (dT_dt * dt) \div 1000
  IN  Max2(T_min, Min2(OverTempLimit + 100000, Tn))

\* one physics step: the new T_current for heater power pct (percent) over dt ms
PhysicsStep(T, pct, dt) ==
  LET p        == Max2(0, Min2(100, pct))
      power_in == (p * P_max) \div 100
      \* dT/dt in milli-degrees per second; power_loss = k_loss * (T - T_ambient) / 1000 W
      raw      == (1000 * power_in - k_loss * (T - T_ambient)) \div C_thermal
      dT_dt    == Max2(-max_ramp_rate, Min2(max_ramp_rate, raw))
      Tn       == T + (dT_dt * dt) \div 1000
  IN  Max2(T_min, Min2(T_max, Tn))

(***************************************************************************)
(* Machine objects.  One record shape serves the three classes; a field a  *)
(* class does not have keeps its initial value.                            *)
(***************************************************************************)
NoItem == "None"

NewMachine(id) ==
  [ state            |-> "IDLE",
    enabled          |-> FALSE,
    fault_code       |-> 0,
    processed_count  |-> 0,
    progress         |-> 0,
    current_item     |-> NoItem,
    queue_in         |-> <<>>,
    queue_out        |-> <<>>,
    queue_reject     |-> <<>>,
    reject_count     |-> 0,
    cmd_trigger      |-> FALSE,
    cmd_pour_request |-> FALSE,
    pressure_psi     |-> 0,
    spindle_rpm      |-> 0,
    heater_power     |-> 0,
    T_current        |-> IF Kind(id) = "thermal" THEN T_ambient ELSE 0 ]

\* every subclass returns True
pre_start_checks(id, m) == TRUE

\* ThermalMachine: over-temperature; the other classes never fault
detect_fault(id, m) == Kind(id) = "thermal" /\ m.T_current > OverTempLimit

get_fault_code(id) == IF Kind(id) = "thermal" THEN 201 ELSE 0

(***************************************************************************)
(* BaseMachine command handlers.  Each yields the machine after the call   *)
(* (m), the returned value (ret) and, in order, the values it assigned to  *)
(* self.state and the hooks it invoked (trail).                            *)
(***************************************************************************)
\* a start that tests the pre-start checks only and so runs a disabled machine
handle_start_command_noenable(id, m) ==
  IF m.state # "IDLE" THEN [m |-> m, ret |-> FALSE, trail |-> <<>>]
  ELSE IF ~pre_start_checks(id, m) THEN
    [m |-> [m EXCEPT !.fault_code = 102, !.state = "FAULTED"],
     ret |-> FALSE, trail |-> <<"FAULTED">>]
  ELSE
    [m |-> [m EXCEPT !.state = "RUNNING"],
     ret |-> TRUE, trail |-> <<"RUNNING", "_on_start">>]

\* a start that looks at the enabled flag before it looks at the state
handle_start_command_enablefirst(id, m) ==
  IF ~m.enabled THEN
    [m |-> [m EXCEPT !.fault_code = 101, !.state = "FAULTED"],
     ret |-> FALSE, trail |-> <<"FAULTED">>]
  ELSE IF m.state # "IDLE" THEN [m |-> m, ret |-> FALSE, trail |-> <<>>]
  ELSE
    [m |-> [m EXCEPT !.state = "RUNNING"],
     ret |-> TRUE, trail |-> <<"RUNNING", "_on_start">>]

handle_start_command(id, m) ==
  IF m.state # "IDLE" THEN [m |-> m, ret |-> FALSE, trail |-> <<>>]
  ELSE IF ~m.enabled THEN
    [m |-> [m EXCEPT !.fault_code = 101, !.state = "FAULTED"],
     ret |-> FALSE, trail |-> <<"FAULTED">>]
  ELSE IF ~pre_start_checks(id, m) THEN
    [m |-> [m EXCEPT !.fault_code = 102, !.state = "FAULTED"],
     ret |-> FALSE, trail |-> <<"FAULTED">>]
  ELSE
    [m |-> [m EXCEPT !.state = "RUNNING"],
     ret |-> TRUE, trail |-> <<"RUNNING", "_on_start">>]

\* a stop accepted in every state but IDLE
handle_stop_command_anystate(id, m) ==
  IF m.state # "IDLE" THEN
    [m |-> [m EXCEPT !.state = "STOPPED"],
     ret |-> TRUE, trail |-> <<"STOPPED", "_on_stop">>]
  ELSE [m |-> m, ret |-> FALSE, trail |-> <<>>]

handle_stop_command(id, m) ==
  IF m.state = "RUNNING" THEN
    [m |-> [m EXCEPT !.state = "STOPPED"],
     ret |-> TRUE, trail |-> <<"STOPPED", "_on_stop">>]
  ELSE [m |-> m, ret |-> FALSE, trail |-> <<>>]

\* a reset that returns to IDLE but keeps the fault code
handle_reset_command_keepcode(id, m) ==
  IF m.state \in {"STOPPED", "FAULTED"} THEN
    [m |-> [m EXCEPT !.state = "IDLE"],
     ret |-> TRUE, trail |-> <<"IDLE", "_on_reset">>]
  ELSE [m |-> m, ret |-> FALSE, trail |-> <<>>]

handle_reset_command(id, m) ==
  IF m.state \in {"STOPPED", "FAULTED"} THEN
    [m |-> [m EXCEPT !.fault_code = 0, !.state = "IDLE"],
     ret |-> TRUE, trail |-> <<"IDLE", "_on_reset">>]
  ELSE [m |-> m, ret |-> FALSE, trail |-> <<>>]

\* every subclass overrides BaseMachine.force_safe_state without calling it
force_safe_state(id, m) ==
  CASE Kind(id) = "simple"     -> [m EXCEPT !.progress = 0, !.spindle_rpm = 0,
                                            !.pressure_psi = 0]
    [] Kind(id) = "thermal"    -> [m EXCEPT !.heater_power = 0]
    [] Kind(id) = "inspection" -> [m EXCEPT !.progress = 0]

CommandNames == {"start", "stop", "reset", "trigger", "pour_request"}

\* BaseMachine.set_command: edge-triggered dispatch
base_set_command(id, m, cmd_name, value) ==
  IF ~value THEN m
  ELSE CASE cmd_name = "start" -> handle_start_command(id, m).m
         [] cmd_name = "stop"  -> handle_stop_command(id, m).m
         [] cmd_name = "reset" -> handle_reset_command(id, m).m
         [] OTHER              -> m

\* SimpleMachine extends the command set; the other classes inherit
set_command(id, m, cmd_name, value) ==
  LET b == base_set_command(id, m, cmd_name, value)
  IN  IF Kind(id) # "simple" THEN b
      ELSE CASE cmd_name = "trigger"      -> [b EXCEPT !.cmd_trigger = value]
             [] cmd_name = "pour_request" -> [b EXCEPT !.cmd_pour_request = value]
             [] OTHER                     -> b

\* receive_item: SimpleMachine refuses beyond capacity (100), the others accept
receive_item(id, m, item) ==
  IF Kind(id) = "simple" /\ Len(m.queue_in) >= 100 THEN m
  ELSE [m EXCEPT !.queue_in = Append(@, item)]

(***************************************************************************)
(* get_tags(): the base tags and the tags of the class, keyed by the part  *)
(* of the tag name after "<id>.".                                          *)
(***************************************************************************)
\* progress as the tag shows it: hundredths of a percent of the cycle
progress_tag(id, m) == (2 * m.progress * 10000 + cycle_time(id)) \div (2 * cycle_time(id))

\* the tag names in the order the dictionary is filled
tag_names(id) ==
  <<"state", "enabled", "fault_code", "processed_count">> \o
  (CASE Kind(id) = "simple" ->
          <<"progress", "queue_in", "queue_out">> \o
          (CASE role(id) = "casting"   -> <<"pressure_psi", "pour_request">>
             [] role(id) = "machining" -> <<"spindle_rpm", "trigger">>
             [] OTHER                  -> <<>>)
     [] Kind(id) = "thermal" ->
          <<"temperature", "target_temp", "max_temp", "burner_enable",
            "progress", "queue_in", "queue_out">>
     [] Kind(id) = "inspection" ->
          <<"rejects", "progress", "queue_in", "queue_out", "fail_rate">>)

\* the value get_tags() reports under a tag name; temperature in tenths of a
\* degree, fail_rate in percent
tag_value(id, m, name) ==
  CASE name = "state"           -> m.state
    [] name = "enabled"         -> m.enabled
    [] name = "fault_code"      -> m.fault_code
    [] name = "processed_count" -> m.processed_count
    [] name = "progress"        -> progress_tag(id, m)
    [] name = "queue_in"        -> Len(m.queue_in)
    [] name = "queue_out"       -> Len(m.queue_out)
    [] name = "pressure_psi"    -> m.pressure_psi
    [] name = "pour_request"    -> m.cmd_pour_request
    [] name = "spindle_rpm"     -> m.spindle_rpm
    [] name = "trigger"         -> m.cmd_trigger
    [] name = "temperature"     -> (m.T_current + 50) \div 100
    [] name = "target_temp"     -> target_temp(id)
    [] name = "max_temp"        -> T_max
    [] name = "burner_enable"   -> m.heater_power > 0
    [] name = "rejects"         -> m.reject_count
    [] name = "fail_rate"       -> 10

\* a get_tags that zeroes the progress it has just reported
get_tags_consuming(id, m) ==
  [m    |-> [m EXCEPT !.progress = 0],
   ret  |-> TRUE,
   tags |-> [i \in 1..Len(tag_names(id)) |-> tag_value(id, m, tag_names(id)[i])],
   trail |-> tag_names(id)]

\* BaseMachine.get_tags: m is the machine after the call, ret tells that the
\* call returned, tags are the values in the order of trail, the tag names
get_tags(id, m) ==
  [m    |-> m,
   ret  |-> TRUE,
   tags |-> [i \in 1..Len(tag_names(id)) |-> tag_value(id, m, tag_names(id)[i])],
   trail |-> tag_names(id)]

(***************************************************************************)
(* Running logic of the three classes and tick().                          *)
(***************************************************************************)
\* process the loaded item for dt and finish it when the cycle is complete
\* reject: the outcome of random.random() < fail_rate (InspectionMachine only)
Process(id, m, dt, reject) ==
  LET p == m.progress + dt
  IN  IF p >= cycle_time(id) THEN
        IF Kind(id) = "inspection" /\ reject THEN
          [m EXCEPT !.reject_count = @ + 1,
                    !.queue_reject = Append(@, m.current_item),
                    !.current_item = NoItem,
                    !.processed_count = @ + 1,
                    !.progress = 0]
        ELSE
          [m EXCEPT !.queue_out = Append(@, m.current_item),
                    !.current_item = NoItem,
                    !.processed_count = @ + 1,
                    !.progress = 0]
      ELSE [m EXCEPT !.progress = p]

SimpleRunningLogic(id, m, dt) ==
  LET m0 == CASE role(id) = "casting" ->
                   [m EXCEPT !.pressure_psi = IF m.current_item # NoItem THEN 45 ELSE 0]
              [] role(id) = "machining" ->
                   [m EXCEPT !.spindle_rpm = IF m.current_item # NoItem THEN 3500 ELSE 0]
              [] OTHER -> m
  IN  IF m0.current_item # NoItem THEN Process(id, m0, dt, FALSE)
      ELSE IF m0.queue_in # <<>> THEN
        IF role(id) = "machining" /\ has_trigger(id) /\ ~m0.cmd_trigger
        THEN [m0 EXCEPT !.spindle_rpm = 1000]
        ELSE Process(id,
                     [m0 EXCEPT !.current_item = Head(m0.queue_in),
                                !.queue_in = Tail(@),
                                !.progress = 0,
                                !.cmd_trigger = FALSE,
                                !.cmd_pour_request = FALSE],
                     dt, FALSE)
      ELSE IF role(id) = "casting" THEN
        IF has_pour(id) /\ ~m0.cmd_pour_request
        THEN [m0 EXCEPT !.pressure_psi = 5]
        ELSE Process(id,
                     [m0 EXCEPT !.current_item = "MoltenMetal_Shot",
                                !.progress = 0,
                                !.cmd_pour_request = FALSE],
                     dt, FALSE)
      ELSE m0

ThermalRunningLogic(id, m, dt) ==
  LET current_temp == m.T_current
      hp == IF is_cooling_tank(id) THEN 0
            ELSE IF current_temp < target_temp(id) - 5000 THEN 100
            ELSE IF current_temp > target_temp(id) + 5000 THEN 0
            ELSE 50
      m0 == [m EXCEPT !.heater_power = hp]
      d  == current_temp - target_temp(id)
      temp_ok == (IF d >= 0 THEN d ELSE -d) < 15000
  IN  IF ~temp_ok /\ ~is_cooling_tank(id) THEN m0
      ELSE IF m0.current_item # NoItem THEN Process(id, m0, dt, FALSE)
      ELSE IF m0.queue_in # <<>> THEN
        Process(id, [m0 EXCEPT !.current_item = Head(m0.queue_in),
                               !.queue_in = Tail(@),
                               !.progress = 0], dt, FALSE)
      ELSE m0

InspectionRunningLogic(id, m, dt, reject) ==
  IF m.current_item # NoItem THEN Process(id, m, dt, reject)
  ELSE IF m.queue_in # <<>> THEN
    Process(id, [m EXCEPT !.current_item = Head(m.queue_in),
                          !.queue_in = Tail(@),
                          !.progress = 0], dt, reject)
  ELSE m

execute_running_logic(id, m, dt, reject) ==
  CASE Kind(id) = "simple"     -> SimpleRunningLogic(id, m, dt)
    [] Kind(id) = "thermal"    -> ThermalRunningLogic(id, m, dt)
    [] Kind(id) = "inspection" -> InspectionRunningLogic(id, m, dt, reject)

\* a tick that runs the logic hook in every state but FAULTED
base_tick_always_runs(id, m, dt, reject) ==
  IF m.state = "RUNNING" /\ detect_fault(id, m) THEN
    [m EXCEPT !.fault_code = get_fault_code(id), !.state = "FAULTED"]
  ELSE IF m.state # "FAULTED" THEN execute_running_logic(id, m, dt, reject)
  ELSE m

\* BaseMachine.tick: fault detection first, then the running logic
base_tick(id, m, dt, reject) ==
  IF m.state = "RUNNING" /\ detect_fault(id, m) THEN
    [m EXCEPT !.fault_code = get_fault_code(id), !.state = "FAULTED"]
  ELSE IF m.state = "RUNNING" THEN execute_running_logic(id, m, dt, reject)
  ELSE m

\* ThermalMachine.tick runs the physics in every state, then the base tick
tick(id, m, dt, reject) ==
  IF Kind(id) = "thermal" THEN
    LET h  == IF m.state # "RUNNING" THEN 0 ELSE m.heater_power
        m1 == [m EXCEPT !.heater_power = h,
                        !.T_current = PhysicsStep(m.T_current, h, dt)]
    IN  base_tick(id, m1, dt, reject)
  ELSE base_tick(id, m, dt, reject)

(***************************************************************************)
(* ProductionOrchestrator (orchestrator.py).  Its operators work on a      *)
(* plant record [ms |-> machine collection, o |-> orchestrator, exc |->     *)
(* the exception raised so far, "none" while none has been].                *)
(***************************************************************************)
INGOT_KG_PER_WHEEL == 10
BATCH_SIZE_KG == 50
BUFFER_LIMIT_KG == 50

WIP_KEYS ==
  {"ingots_kg", "molten_metal_kg", "degassed_metal_kg", "cast_parts",
   "heat_treated_parts", "machined_parts", "painted_parts", "xray_passed",
   "qc_passed", "scrap_parts"}

\* ProductionOrchestrator.__init__ followed by start_session(current_time)
NewOrchestrator(current_time) ==
  [ created            |-> TRUE,
    wip                |-> [k \in WIP_KEYS |->
                              IF k = "ingots_kg" THEN BATCH_SIZE_KG ELSE 0],
    batch_id           |-> 1,
    batch_start_time   |-> current_time,
    session_start_time |-> current_time,
    last_sim_time      |-> 0,
    kpis               |-> [ total_ingots_consumed |-> 0,
                             total_wheels_produced |-> 0,
                             total_scrap           |-> 0,
                             batches_completed     |-> 0,
                             throughput_wheels_hr  |-> 0,
                             yield_percent         |-> 0 ] ]

\* the engine's orchestrator attribute before the first un-gated step
NoOrch == [NewOrchestrator(0) EXCEPT !.created = FALSE]

Present(p, id) == id \in DOMAIN p.ms

\* F applied to the value of x, x being evaluated once: one statement
\* finishing before the next one reads its result
Then(x, F(_)) == CHOOSE r \in {F(y) : y \in {x}} : TRUE

\* the next statement of a call chain on plant x: it runs unless an
\* exception is already on its way up to the caller
Try(x, F(_)) ==
  CHOOSE r \in {IF y.exc = "none" THEN F(y) ELSE y : y \in {x}} : TRUE

\* idle judged by the input queue alone
is_idle_queue_only(p, id) ==
  /\ Present(p, id)
  /\ Len(p.ms[id].queue_in) = 0

is_idle(p, id) ==
  /\ Present(p, id)
  /\ p.ms[id].current_item = NoItem
  /\ Len(p.ms[id].queue_in) = 0

AddWip(p, key, n) == [p EXCEPT !.o.wip[key] = @ + n]

\* a collection that clears queue_out and credits nothing
Collect_discarding(p, id, key, amt) ==
  IF ~Present(p, id) THEN p ELSE [p EXCEPT !.ms[id].queue_out = <<>>]

\* _collect_items and its use: clear queue_out, credit amt once if it held anything
Collect(p, id, key, amt) ==
  IF ~Present(p, id) THEN p
  ELSE IF Len(p.ms[id].queue_out) > 0
       THEN AddWip([p EXCEPT !.ms[id].queue_out = <<>>], key, amt)
       ELSE p

\* the outbound stage: _collect_items with nothing credited
ClearOut(p, id) ==
  IF ~Present(p, id) THEN p ELSE [p EXCEPT !.ms[id].queue_out = <<>>]

\* _pop_all_items and the per-item draw: of the collected items, nrej are
\* rejected (scrap) and the others credited to key
CollectGate(p, id, key, nrej) ==
  IF ~Present(p, id) THEN p
  ELSE LET n  == Len(p.ms[id].queue_out)
           p1 == [p EXCEPT !.ms[id].queue_out = <<>>]
           p2 == [p1 EXCEPT !.o.wip["scrap_parts"] = @ + nrej,
                            !.o.kpis.total_scrap = @ + nrej]
       IN  AddWip(p2, key, n - nrej)

\* the InspectionMachine's own reject queue goes to scrap
CollectRejects(p, id) ==
  IF ~Present(p, id) \/ Kind(id) # "inspection" THEN p
  ELSE LET n == Len(p.ms[id].queue_reject)
       IN  [p EXCEPT !.ms[id].queue_reject = <<>>,
                     !.o.wip["scrap_parts"] = @ + n,
                     !.o.kpis.total_scrap = @ + n]

\* rej_x, rej_q: how many of the items collected at the X-ray and packing
\* gates draw a reject
collect_outputs(p, rej_x, rej_q) ==
  LET S1(q) == Collect(q, "m_furnace",  "molten_metal_kg",    10)
      S2(q) == Collect(q, "m_degasser", "degassed_metal_kg",  10)
      S3(q) == Collect(q, "m_lpdc",     "cast_parts",         1)
      S4(q) == Collect(q, "m_heat",     "heat_treated_parts", 1)
      S5(q) == Collect(q, "m_cnc",      "machined_parts",     1)
      S6(q) == Collect(q, "m_paint1",   "painted_parts",      1)
      S7(q) == CollectGate(q, "m_inspect", "xray_passed", rej_x)
      S8(q) == CollectRejects(q, "m_inspect")
      S9(q) == CollectGate(q, "m_pack", "qc_passed", rej_q)
      S10(q) == ClearOut(q, "m_outbound")
  IN  Try(Try(Try(Try(Try(Try(Try(Try(Try(Try(p,
        S1), S2), S3), S4), S5), S6), S7), S8), S9), S10)

\* _start_machine: load the item and issue the role's edge command
start_machine(p, id, item) ==
  IF ~Present(p, id) THEN p
  ELSE LET m1 == [p.ms[id] EXCEPT !.queue_in = Append(@, item)]
           m2 == IF Kind(id) # "simple" THEN m1
                 ELSE IF role(id) = "casting"
                      THEN set_command(id, m1, "pour_request", TRUE)
                 ELSE IF role(id) = "machining"
                      THEN set_command(id, m1, "trigger", TRUE)
                 ELSE m1
       IN  [p EXCEPT !.ms[id] = m2]

\* a stage that feeds an idle machine without looking at the upstream quantity
Feed_noguard(p, id, key, amt, item) ==
  IF is_idle(p, id)
  THEN start_machine(AddWip(p, key, -amt), id, item)
  ELSE p

\* one stage of _process_low_material_flow
Feed(p, id, key, amt, item) ==
  IF p.o.wip[key] >= amt /\ is_idle(p, id)
  THEN start_machine(AddWip(p, key, -amt), id, item)
  ELSE p

\* a furnace whose flow control also pauses it once scrap has been recorded
FeedFurnace_scrap_gated(p) ==
  IF /\ p.o.wip["ingots_kg"] >= 10
     /\ is_idle(p, "m_furnace")
     /\ p.o.wip["degassed_metal_kg"] < BUFFER_LIMIT_KG
     /\ p.o.wip["scrap_parts"] = 0
  THEN start_machine([AddWip(p, "ingots_kg", -10) EXCEPT
                         !.o.kpis.total_ingots_consumed = @ + 10],
                     "m_furnace", "IngotBatch")
  ELSE p

FeedFurnace(p) ==
  IF /\ p.o.wip["ingots_kg"] >= 10
     /\ is_idle(p, "m_furnace")
     /\ p.o.wip["degassed_metal_kg"] < BUFFER_LIMIT_KG
  THEN start_machine([AddWip(p, "ingots_kg", -10) EXCEPT
                         !.o.kpis.total_ingots_consumed = @ + 10],
                     "m_furnace", "IngotBatch")
  ELSE p

\* the CNC stage without the watchdog branch
FeedCnc_nowatchdog(p) ==
  IF p.o.wip["heat_treated_parts"] >= 1 /\ is_idle(p, "m_cnc")
  THEN start_machine(AddWip(p, "heat_treated_parts", -1), "m_cnc", "HTPart")
  ELSE IF ~Present(p, "m_cnc")
       THEN [p EXCEPT !.exc = "AttributeError"]
       ELSE p

\* the CNC stage with its missed-trigger watchdog; the watchdog reads
\* m_cnc.queue_in without testing that the collection has an m_cnc
FeedCnc(p) ==
  IF p.o.wip["heat_treated_parts"] >= 1 /\ is_idle(p, "m_cnc")
  THEN start_machine(AddWip(p, "heat_treated_parts", -1), "m_cnc", "HTPart")
  ELSE IF ~Present(p, "m_cnc")
       THEN [p EXCEPT !.exc = "AttributeError"]
  ELSE IF /\ Len(p.ms["m_cnc"].queue_in) > 0
          /\ p.ms["m_cnc"].current_item = NoItem
       THEN [p EXCEPT !.ms["m_cnc"] = set_command("m_cnc", @, "trigger", TRUE)]
       ELSE p

FeedOutbound(p) ==
  IF p.o.wip["qc_passed"] >= 1 /\ is_idle(p, "m_outbound")
  THEN start_machine([AddWip(p, "qc_passed", -1) EXCEPT
                         !.o.kpis.total_wheels_produced = @ + 1],
                     "m_outbound", "Wheel")
  ELSE p

process_low_material_flow(p) ==
  LET S1(q) == FeedFurnace(q)
      S2(q) == Feed(q, "m_degasser", "molten_metal_kg",   10, "MoltenBatch")
      S3(q) == Feed(q, "m_lpdc",     "degassed_metal_kg", 10, "DegassedMetal")
      S4(q) == Feed(q, "m_heat",     "cast_parts",        1,  "CastPart")
      S5(q) == FeedCnc(q)
      S6(q) == Feed(q, "m_paint1",   "machined_parts",    1,  "MachinedPart")
      S7(q) == Feed(q, "m_inspect",  "painted_parts",     1,  "PaintedPart")
      S8(q) == Feed(q, "m_pack",     "xray_passed",       1,  "XRayVerifiedPart")
      S9(q) == FeedOutbound(q)
  IN  Try(Try(Try(Try(Try(Try(Try(Try(Try(p,
        S1), S2), S3), S4), S5), S6), S7), S8), S9)

\* throughput in wheels per hour and yield in thousandths of a percent,
\* both rounded down
update_kpis(p, current_time) ==
  LET elapsed == current_time - p.o.session_start_time
      k       == p.o.kpis
      total   == k.total_wheels_produced + k.total_scrap
      k1 == IF elapsed > 0
            THEN [k EXCEPT !.throughput_wheels_hr =
                     (k.total_wheels_produced * 3600000) \div elapsed]
            ELSE k
      k2 == IF total > 0
            THEN [k1 EXCEPT !.yield_percent =
                     (k.total_wheels_produced * 100000) \div total]
            ELSE k1
  IN  [p EXCEPT !.o.kpis = k2]

\* a batch declared complete one feed early
check_batch_lifecycle_early(p) ==
  IF p.o.wip["ingots_kg"] <= 10
  THEN [p EXCEPT !.o.kpis.batches_completed = @ + 1,
                 !.o.batch_id = @ + 1,
                 !.o.wip["ingots_kg"] = BATCH_SIZE_KG]
  ELSE p

\* a batch change that also clears the in-flight WIP downstream of the ingots
check_batch_lifecycle_clearing(p) ==
  IF p.o.wip["ingots_kg"] <= 0
  THEN [p EXCEPT !.o.kpis.batches_completed = @ + 1,
                 !.o.batch_id = @ + 1,
                 !.o.wip = [k \in WIP_KEYS |->
                              IF k = "ingots_kg" THEN BATCH_SIZE_KG ELSE 0]]
  ELSE p

\* a lifecycle that waits for the melt to leave the line before it restocks
check_batch_lifecycle_line_empty(p) ==
  IF /\ p.o.wip["ingots_kg"] <= 0
     /\ p.o.wip["molten_metal_kg"] = 0
     /\ p.o.wip["degassed_metal_kg"] = 0
  THEN [p EXCEPT !.o.kpis.batches_completed = @ + 1,
                 !.o.batch_id = @ + 1,
                 !.o.wip["ingots_kg"] = BATCH_SIZE_KG]
  ELSE p

\* _check_batch_lifecycle
check_batch_lifecycle(p) ==
  IF p.o.wip["ingots_kg"] <= 0
  THEN [p EXCEPT !.o.kpis.batches_completed = @ + 1,
                 !.o.batch_id = @ + 1,
                 !.o.wip["ingots_kg"] = BATCH_SIZE_KG]
  ELSE p

\* ProductionOrchestrator.tick
\* the plant inside tick() once _collect_outputs has returned
tick_collected(p, current_time, rej_x, rej_q) ==
  LET S0(q) == [q EXCEPT !.o.last_sim_time = current_time]
      S1(q) == collect_outputs(q, rej_x, rej_q)
  IN  Try(Try(p, S0), S1)

\* a tick that takes its KPI snapshot before the flow stage moves the counters
tick_accounted_kpis_first(p, current_time, rej_x, rej_q) ==
  LET S2(q) == process_low_material_flow(q)
      S3(q) == update_kpis(q, current_time)
  IN  Try(Try(tick_collected(p, current_time, rej_x, rej_q), S3), S2)

\* the plant inside tick() once _update_kpis has returned
tick_accounted(p, current_time, rej_x, rej_q) ==
  LET S2(q) == process_low_material_flow(q)
      S3(q) == update_kpis(q, current_time)
  IN  Try(Try(tick_collected(p, current_time, rej_x, rej_q), S2), S3)

orchestrator_tick(p, dt, current_time, rej_x, rej_q) ==
  LET S4(q) == check_batch_lifecycle(q)
  IN  Try(tick_accounted(p, current_time, rej_x, rej_q), S4)

(***************************************************************************)
(* SimulationEngine.step (engine.py), the part after the power gate.       *)
(***************************************************************************)
\* machine ticks that hand a finished unit straight to the next machine
RECURSIVE TickFrom_handoff(_, _, _, _)
TickFrom_handoff(ms, i, dt, reject) ==
  IF i > Len(MachineOrder) THEN ms
  ELSE LET id == MachineOrder[i]
           TickOne(s) == IF id \in DOMAIN s
                         THEN [s EXCEPT ![id] = tick(id, s[id], dt, reject)]
                         ELSE s
           Hand(s) == IF /\ i < Len(MachineOrder)
                         /\ id \in DOMAIN s
                         /\ MachineOrder[i + 1] \in DOMAIN s
                      THEN [s EXCEPT ![MachineOrder[i + 1]].queue_in = @ \o s[id].queue_out,
                                     ![id].queue_out = <<>>]
                      ELSE s
       IN  TickFrom_handoff(Then(Then(ms, TickOne), Hand), i + 1, dt, reject)

\* tick the machines MachineOrder[i..] that are in the collection
RECURSIVE TickFrom(_, _, _, _)
TickFrom(ms, i, dt, reject) ==
  IF i > Len(MachineOrder) THEN ms
  ELSE LET id == MachineOrder[i]
           TickOne(s) == IF id \in DOMAIN s
                         THEN [s EXCEPT ![id] = tick(id, s[id], dt, reject)]
                         ELSE s
       IN  TickFrom(Then(ms, TickOne), i + 1, dt, reject)

\* a step that ticks the machines before the orchestrator
StepPlant_machines_first(p, now, reject, rej_x, rej_q) ==
  LET Create(q) == IF q.o.created THEN q ELSE [q EXCEPT !.o = NewOrchestrator(now)]
      Orch(q)   == orchestrator_tick(q, time_step, now, rej_x, rej_q)
      Ticks(q)  == [q EXCEPT !.ms = TickFrom(q.ms, 1, time_step, reject)]
  IN  Try(Try(Try(p, Create), Ticks), Orch)

\* the plant after one un-gated step at simulation time now
\* reject: the draw made by the InspectionMachine if it finishes a part
StepPlant(p, now, reject, rej_x, rej_q) ==
  LET Create(q) == IF q.o.created THEN q ELSE [q EXCEPT !.o = NewOrchestrator(now)]
      Orch(q)   == orchestrator_tick(q, time_step, now, rej_x, rej_q)
      Ticks(q)  == [q EXCEPT !.ms = TickFrom(q.ms, 1, time_step, reject)]
  IN  Try(Try(Try(p, Create), Orch), Ticks)

(***************************************************************************)
(* State before any call.                                                  *)
(***************************************************************************)
\* what a call found: the target's FSM state, enabled flag and fault code
Pre(m) == [state |-> m.state, enabled |-> m.enabled, fault_code |-> m.fault_code]

NoPre == [state |-> "none", enabled |-> FALSE, fault_code |-> 0]

NoCall == [op |-> "none", id |-> "none", ret |-> FALSE, trail |-> <<>>, pre |-> NoPre]

Call(op, id, ret, trail, pre) ==
  [op |-> op, id |-> id, ret |-> ret, trail |-> trail, pre |-> pre]

NoTwin == [active |-> FALSE]

\* no flow engine and no physics model are built by the specifications of
\* the machines and of the line
NoFlow == [built |-> FALSE]

NoPhysics == [model |-> "none"]

(***************************************************************************)
(* Single-machine specification: one machine of the collection is built    *)
(* and driven directly through its public operations.                      *)
(***************************************************************************)
TestIds == {"m_furnace", "m_degasser", "m_lpdc", "m_cnc", "m_inspect"}

TheId == CHOOSE id \in DOMAIN machines : TRUE

TheMachine == machines[TheId]

InitMachine ==
  /\ \E id \in TestIds : machines = (id :> NewMachine(id))
  /\ orch = NoOrch
  /\ ticks = 0
  /\ sim_time = 0
  /\ power_state = "OFF"
  /\ last = NoCall
  /\ ncmd = [machine |-> 0, plc |-> 0]
  /\ drv = [ticks |-> 0, items |-> 0]
  /\ twin = NoTwin
  /\ snapshots = <<>>
  /\ flow = NoFlow
  /\ physics = NoPhysics

MachineFrame == UNCHANGED <<orch, ticks, sim_time, power_state, ncmd, twin, snapshots, flow, physics>>

MStart ==
  LET r == handle_start_command(TheId, TheMachine)
  IN  /\ machines' = (TheId :> r.m)
      /\ last' = Call("handle_start_command", TheId, r.ret, r.trail, Pre(TheMachine))
      /\ UNCHANGED drv
      /\ MachineFrame

MStop ==
  LET r == handle_stop_command(TheId, TheMachine)
  IN  /\ machines' = (TheId :> r.m)
      /\ last' = Call("handle_stop_command", TheId, r.ret, r.trail, Pre(TheMachine))
      /\ UNCHANGED drv
      /\ MachineFrame

MReset ==
  LET r == handle_reset_command(TheId, TheMachine)
  IN  /\ machines' = (TheId :> r.m)
      /\ last' = Call("handle_reset_command", TheId, r.ret, r.trail, Pre(TheMachine))
      /\ UNCHANGED drv
      /\ MachineFrame

MForceSafe ==
  /\ machines' = (TheId :> force_safe_state(TheId, TheMachine))
  /\ last' = Call("force_safe_state", TheId, FALSE, <<>>, Pre(TheMachine))
  /\ UNCHANGED drv
  /\ MachineFrame

MSetCommand ==
  \E c \in CommandNames, v \in BOOLEAN :
    /\ machines' = (TheId :> set_command(TheId, TheMachine, c, v))
    /\ last' = Call("set_command", TheId, v, <<c>>, Pre(TheMachine))
    /\ UNCHANGED drv
    /\ MachineFrame

\* the supervisory layer writes the enabled field directly
MSetEnabled ==
  \E b \in BOOLEAN :
    /\ machines' = (TheId :> [TheMachine EXCEPT !.enabled = b])
    /\ last' = Call("enabled", TheId, b, <<>>, Pre(TheMachine))
    /\ UNCHANGED drv
    /\ MachineFrame

\* the SCADA layer reads the tags
MGetTags ==
  LET r == get_tags(TheId, TheMachine)
  IN  /\ machines' = (TheId :> r.m)
      /\ last' = Call("get_tags", TheId, r.ret, r.trail, Pre(TheMachine))
      /\ UNCHANGED drv
      /\ MachineFrame

MReceive ==
  /\ drv.items < MaxItems
  /\ machines' = (TheId :> receive_item(TheId, TheMachine, "Item"))
  /\ last' = Call("receive_item", TheId, TRUE, <<>>, Pre(TheMachine))
  /\ drv' = [drv EXCEPT !.items = @ + 1]
  /\ MachineFrame

MTick ==
  /\ drv.ticks < MaxMachineTicks
  /\ \E reject \in BOOLEAN :
       machines' = (TheId :> tick(TheId, TheMachine, time_step, reject))
  /\ last' = Call("tick", TheId, FALSE, <<>>, Pre(TheMachine))
  /\ drv' = [drv EXCEPT !.ticks = @ + 1]
  /\ MachineFrame

NextMachine ==
  \/ MStart
  \/ MStop
  \/ MReset
  \/ MForceSafe
  \/ MSetCommand
  \/ MSetEnabled
  \/ MReceive
  \/ MTick
  \/ MGetTags

SpecMachine == InitMachine /\ [][NextMachine]_vars

(***************************************************************************)
(* Line specification: the VirtualPLC owns the engine built by the         *)
(* factory; its scan loop runs the power-state machine and steps the       *)
(* engine, and external clients send machine commands between scans.       *)
(***************************************************************************)
\* the machines the PLC wraps in a SimulationAdapter
Devices == {"m_furnace", "m_lpdc", "m_cnc", "m_inspect"}

Init ==
  /\ machines = [id \in MachineIds |-> NewMachine(id)]
  /\ orch = NoOrch
  /\ ticks = 0
  /\ sim_time = 0
  /\ power_state = "OFF"
  /\ last = NoCall
  /\ ncmd = [machine |-> 0, plc |-> 0]
  /\ drv = [ticks |-> 0, items |-> 0]
  /\ twin = NoTwin
  /\ snapshots = <<>>
  /\ flow = NoFlow
  /\ physics = NoPhysics

Plant == [ms |-> machines, o |-> orch, exc |-> "none"]

\* VirtualPLC.is_running, the engine's run predicate
is_running == power_state = "RUNNING"

\* an input scan that honours Stop in every power state
handle_power_inputs_stop_anywhere(ps, start, stop) ==
  LET ps1 == IF start /\ ps = "OFF" THEN "STARTING" ELSE ps
  IN  IF stop THEN "STOPPING" ELSE ps1

\* _handle_opcua_inputs, PLC control: the power state after the Start and
\* Stop command tags have been read
handle_power_inputs(ps, start, stop) ==
  LET ps1 == IF start /\ ps = "OFF" THEN "STARTING" ELSE ps
  IN  IF stop /\ ps1 = "RUNNING" THEN "STOPPING" ELSE ps1

\* a Start command enables every wrapped machine
EnableDevices(ms) ==
  [id \in DOMAIN ms |-> IF id \in Devices THEN [ms[id] EXCEPT !.enabled = TRUE]
                        ELSE ms[id]]

\* STARTING pass: wrapped machines are set IDLE and sent start, then every
\* machine's state is overwritten with RUNNING
StartingSequence(ms) ==
  LET ms1 == [id \in DOMAIN ms |->
                IF id \in Devices
                THEN set_command(id, [ms[id] EXCEPT !.state = "IDLE"], "start", TRUE)
                ELSE ms[id]]
  IN  [id \in DOMAIN ms |-> [ms1[id] EXCEPT !.state = "RUNNING"]]

\* STOPPING pass: wrapped machines are sent stop, then every machine's state
\* is overwritten with IDLE and its force_safe_state() runs
StoppingSequence(ms) ==
  LET ms1 == [id \in DOMAIN ms |->
                IF id \in Devices THEN set_command(id, ms[id], "stop", TRUE)
                ELSE ms[id]]
  IN  [id \in DOMAIN ms |-> force_safe_state(id, [ms1[id] EXCEPT !.state = "IDLE"])]

\* the draws one engine step may consume: the InspectionMachine's own draw
\* (only when a part can reach it in this step) and, at the two gates, how
\* many of the collected items draw a reject
DrawsOf(ms, o) ==
  LET out(id) == IF id \in DOMAIN ms THEN Len(ms[id].queue_out) ELSE 0
      busy == /\ "m_inspect" \in DOMAIN ms
              /\ \/ ms["m_inspect"].current_item # NoItem
                 \/ ms["m_inspect"].queue_in # <<>>
                 \/ o.wip["painted_parts"] >= 1
                 \/ out("m_paint1") > 0
  IN  {<<r, x, q>> : r \in (IF busy THEN BOOLEAN ELSE {FALSE}),
                     x \in 0..out("m_inspect"),
                     q \in 0..out("m_pack")}

Draws == DrawsOf(machines, orch)

\* a step() that catches what its calls raise and carries on to the clock
RunStep_swallowing(d) ==
  \E p \in {StepPlant(Plant, sim_time, d[1], d[2], d[3])} :
    /\ machines' = p.ms
    /\ orch' = p.o
    /\ sim_time' = sim_time + time_step
    /\ ticks' = ticks + 1
    /\ last' = Call("step", "engine", TRUE, <<>>, NoPre)

\* the un-gated body of SimulationEngine.step(): nothing in it catches an
\* exception, so a raise ends the call before the clock statements; ret
\* tells whether the call returned normally, trail what it raised
RunStep(d) ==
  \E p \in {StepPlant(Plant, sim_time, d[1], d[2], d[3])} :
    /\ machines' = p.ms
    /\ orch' = p.o
    /\ IF p.exc = "none"
         THEN sim_time' = sim_time + time_step /\ ticks' = ticks + 1
         ELSE UNCHANGED <<sim_time, ticks>>
    /\ last' = Call("step", "engine", p.exc = "none",
                    IF p.exc = "none" THEN <<>> ELSE <<p.exc>>, NoPre)

\* a gate that never closes
Gated_never == FALSE

\* the hard gate at the top of step(): a PLC is attached and it is not running
Gated == power_state # "NoPLC" /\ ~is_running

\* SimulationEngine.step() called directly, in a run of at most n steps; ret
\* tells whether it got past the gate
StepWithin(n) ==
  /\ ticks < n
  /\ IF Gated
       THEN /\ UNCHANGED <<machines, orch, sim_time, ticks>>
            /\ last' = Call("step", "engine", FALSE, <<>>, NoPre)
       ELSE \E d \in Draws : RunStep(d)
  /\ UNCHANGED <<power_state, ncmd, drv, twin, snapshots, flow, physics>>

Step == StepWithin(MaxTicks)

\* the device nodes of the OPC UA server that are inputs: <<machine, tag>>
InputNodes == {<<"m_lpdc", "PourRequest">>, <<"m_cnc", "Trigger">>}

\* the values clients have written to input nodes since the last output scan
NoWrites == [n \in {} |-> FALSE]

Written == IF "written" \in DOMAIN drv THEN drv.written ELSE NoWrites

\* SimulationAdapter.set_tag: a write from the PLC, forwarded as commands
set_tag(id, m, tag_name, value) ==
  IF ~value THEN m
  ELSE CASE tag_name = "Start" -> set_command(id, m, "start", TRUE)
         [] tag_name = "Stop"  -> set_command(id, m, "stop", TRUE)
         [] tag_name = "PourRequest" /\ id = "m_lpdc" ->
              set_command(id, set_command(id, m, "pour_request", TRUE), "start", TRUE)
         [] tag_name = "Trigger" /\ id = "m_cnc" ->
              set_command(id, set_command(id, m, "trigger", TRUE), "start_job", TRUE)
         [] OTHER -> m

\* the value the input scan reads from node n: what a client wrote, or else
\* what the last output scan published, the machine's own command flag
node_value(ms, written, n) ==
  IF n \in DOMAIN written THEN written[n]
  ELSE IF n[2] = "PourRequest" THEN ms[n[1]].cmd_pour_request
  ELSE ms[n[1]].cmd_trigger

\* an input scan that leaves the device nodes unread
handle_device_inputs_unread(ms, written) == ms

\* _handle_opcua_inputs, part 2: every device node is read and handed to
\* its adapter's set_tag
handle_device_inputs(ms, written) ==
  [id \in DOMAIN ms |->
     IF \E n \in InputNodes : n[1] = id
     THEN LET n == CHOOSE k \in InputNodes : k[1] = id
          IN  set_tag(id, ms[id], n[2], node_value(ms, written, n))
     ELSE ms[id]]

\* _update_opcua_outputs: every device node is overwritten with the tag the
\* machine reports, so no client write outlives the scan
update_opcua_outputs(d) ==
  IF "written" \in DOMAIN d THEN [d EXCEPT !.written = NoWrites] ELSE d

\* one pass of run_scan_loop that reads the PLC command tags start and stop,
\* in a run of at most n steps
ScanWithin(start, stop, n) ==
  LET ms1 == handle_device_inputs(IF start THEN EnableDevices(machines) ELSE machines,
                                  Written)
      ps2 == handle_power_inputs(power_state, start, stop)
  IN  /\ ps2 \in {"STARTING", "STOPPING"} => ncmd.plc < MaxPowerChanges
      /\ ncmd' = IF ps2 \in {"STARTING", "STOPPING"}
                 THEN [ncmd EXCEPT !.plc = @ + 1] ELSE ncmd
      /\ CASE ps2 = "STARTING" ->
                /\ machines' = StartingSequence(ms1)
                /\ power_state' = "RUNNING"
                /\ UNCHANGED <<orch, sim_time, ticks>>
           [] ps2 = "STOPPING" ->
                /\ machines' = StoppingSequence(ms1)
                /\ power_state' = "OFF"
                /\ UNCHANGED <<orch, sim_time, ticks>>
           [] ps2 = "RUNNING" ->
                /\ ticks < n
                /\ \E d \in Draws :
                     LET p == StepPlant([ms |-> ms1, o |-> orch, exc |-> "none"], sim_time,
                                        d[1], d[2], d[3])
                     IN  /\ machines' = p.ms
                         /\ orch' = p.o
                /\ sim_time' = sim_time + time_step
                /\ ticks' = ticks + 1
                /\ UNCHANGED power_state
           [] OTHER ->
                /\ machines' = ms1
                /\ UNCHANGED <<orch, sim_time, ticks, power_state>>
      /\ last' = IF ps2 = "RUNNING" THEN Call("step", "engine", TRUE, <<>>, NoPre)
                 ELSE Call("scan", "plc", FALSE, <<ps2>>, NoPre)
      /\ drv' = update_opcua_outputs(drv)
      /\ UNCHANGED <<twin, snapshots, flow, physics>>

Scan(start, stop) == ScanWithin(start, stop, MaxTicks)

PlcScan == \E start \in BOOLEAN, stop \in BOOLEAN : Scan(start, stop)

\* an external client calls set_command on a machine the PLC exposes; a call
\* that changes nothing is a stuttering step and is left out
ExtCommand ==
  \E id \in Devices, c \in CommandNames, v \in BOOLEAN :
    LET m == set_command(id, machines[id], c, v)
    IN  /\ m # machines[id]
        /\ ncmd.machine < MaxCmds
        /\ machines' = [machines EXCEPT ![id] = m]
        /\ last' = Call("set_command", id, v, <<c>>, Pre(machines[id]))
        /\ ncmd' = [ncmd EXCEPT !.machine = @ + 1]
        /\ UNCHANGED <<orch, sim_time, ticks, power_state, drv, twin, snapshots, flow, physics>>

Next ==
  \/ Step
  \/ PlcScan
  \/ ExtCommand

Spec == Init /\ [][Next]_vars

(***************************************************************************)
(* The line left to itself for several batches: PLC scans and engine       *)
(* steps, no external machine command.                                     *)
(***************************************************************************)
BatchStep == StepWithin(MaxBatchTicks)

BatchScan == \E start \in BOOLEAN, stop \in BOOLEAN : ScanWithin(start, stop, MaxBatchTicks)

NextBatch ==
  \/ BatchStep
  \/ BatchScan

SpecBatch == Init /\ [][NextBatch]_vars

(***************************************************************************)
(* The scan loop with an OPC UA client writing to the device input nodes.  *)
(* drv.written holds the writes the server has accepted since the last     *)
(* output scan; ncmd.machine counts them.                                  *)
(***************************************************************************)
InitScan ==
  /\ machines = [id \in MachineIds |-> NewMachine(id)]
  /\ orch = NoOrch
  /\ ticks = 0
  /\ sim_time = 0
  /\ power_state = "OFF"
  /\ last = NoCall
  /\ ncmd = [machine |-> 0, plc |-> 0]
  /\ drv = [written |-> NoWrites]
  /\ twin = NoTwin
  /\ snapshots = <<>>
  /\ flow = NoFlow
  /\ physics = NoPhysics

\* a client writes a device input node while the scan loop sleeps: the
\* server stores the value, no device is called
WriteNode ==
  \E n \in InputNodes, v \in BOOLEAN :
    /\ ncmd.machine < MaxNodeWrites
    /\ drv' = [drv EXCEPT !.written = (n :> v) @@ @]
    /\ ncmd' = [ncmd EXCEPT !.machine = @ + 1]
    /\ last' = Call("write_node", n[1], v, <<n[2]>>, Pre(machines[n[1]]))
    /\ UNCHANGED <<machines, orch, ticks, sim_time, power_state, twin, snapshots,
                   flow, physics>>

NodeScan == \E start \in BOOLEAN, stop \in BOOLEAN : ScanWithin(start, stop, MaxScanTicks)

NextScan ==
  \/ WriteNode
  \/ NodeScan

SpecScan == InitScan /\ [][NextScan]_vars

(***************************************************************************)
(* The line kept running: the PLC is started and never stopped, and the    *)
(* scan loop (a `while True` around the scan) keeps scanning.              *)
(***************************************************************************)
LineScan == \E start \in BOOLEAN : ScanWithin(start, FALSE, MaxLineTicks)

NextLine == LineScan

\* run_scan_loop never leaves its loop, so a scan that can run does run
SpecLine == Init /\ [][NextLine]_vars /\ WF_vars(LineScan)

(***************************************************************************)
(* The orchestrator's read accessors.  A returned map is an object of its  *)
(* own: [of |-> the attribute it was taken from, live |-> whether it is    *)
(* that attribute's own dictionary rather than a copy, val |-> its entries *)
(* when it is a copy, writes |-> how often the caller has written to it].  *)
(***************************************************************************)
\* an accessor that hands out the orchestrator's own dictionary
get_wip_state_live(o) == [of |-> "wip", live |-> TRUE, val |-> o.wip, writes |-> 0]

\* get_wip_state: self.wip.copy()
get_wip_state(o) == [of |-> "wip", live |-> FALSE, val |-> o.wip, writes |-> 0]

\* get_kpis: self.kpis.copy()
get_kpis(o) == [of |-> "kpis", live |-> FALSE, val |-> o.kpis, writes |-> 0]

\* the entries a holder of the returned map s reads
Seen(s, o) == IF s.live THEN o[s.of] ELSE s.val

\* the entries a caller writes into a returned map
SnapshotWrites(s) ==
  IF s.of = "wip" THEN {<<"ingots_kg", 0>>, <<"degassed_metal_kg", 60>>}
  ELSE {<<"total_ingots_consumed", 0>>}

SnapFrame == UNCHANGED <<machines, ticks, sim_time, power_state, ncmd, drv, twin, flow, physics>>

\* a client reads the WIP through the accessor
GetWipState ==
  /\ orch.created
  /\ Len(snapshots) < MaxSnapshots
  /\ snapshots' = Append(snapshots, get_wip_state(orch))
  /\ last' = Call("get_wip_state", "orchestrator", TRUE, <<>>, NoPre)
  /\ UNCHANGED orch
  /\ SnapFrame

\* a client reads the KPIs through the accessor
GetKpis ==
  /\ orch.created
  /\ Len(snapshots) < MaxSnapshots
  /\ snapshots' = Append(snapshots, get_kpis(orch))
  /\ last' = Call("get_kpis", "orchestrator", TRUE, <<>>, NoPre)
  /\ UNCHANGED orch
  /\ SnapFrame

\* the client assigns to an entry of a map it was handed: the assignment
\* lands in whatever dictionary the map is
MutateSnapshot ==
  \E i \in 1..Len(snapshots) :
    \E w \in SnapshotWrites(snapshots[i]) :
      /\ snapshots[i].writes < MaxSnapshotWrites
      /\ IF snapshots[i].live
           THEN /\ orch' = [orch EXCEPT ![snapshots[i].of][w[1]] = w[2]]
                /\ snapshots' = [snapshots EXCEPT ![i].writes = @ + 1]
           ELSE /\ orch' = orch
                /\ snapshots' = [snapshots EXCEPT ![i].val[w[1]] = w[2],
                                                  ![i].writes = @ + 1]
      /\ last' = Call("mutate", "snapshot", TRUE, <<w[1], w[2], i>>, NoPre)
      /\ SnapFrame

SnapStep == StepWithin(MaxSnapTicks)

SnapScan == \E start \in BOOLEAN, stop \in BOOLEAN : ScanWithin(start, stop, MaxSnapTicks)

NextSnapshot ==
  \/ SnapStep
  \/ SnapScan
  \/ GetWipState
  \/ GetKpis
  \/ MutateSnapshot

SpecSnapshot == Init /\ [][NextSnapshot]_vars

(***************************************************************************)
(* The event system and the counters of the material flow engine           *)
(* (flow/events.py, flow/counters.py, flow/flow_engine.py).  flow is the   *)
(* MaterialFlowEngine: its dispatcher (subscribers: event type -> list of  *)
(* callbacks, event_log: list of events) and its counters (name -> count,  *)
(* defined on the names counted so far, and the draws made from the seeded *)
(* generator).  An event is [type, timestamp].                             *)
(***************************************************************************)
\* the event types emitted here: two with a flow-engine handler, one without
EventTypes == {"LPDC_CYCLE_COMPLETE", "XRAY_FAIL", "PART_SCRAPPED"}

\* callbacks subscribed by a client of the dispatcher; they only observe
Probes == {"probe_a", "probe_b"}

\* the counters driven directly in the counter specification
CounterNames == {"lpdc_cast", "lpdc_scrap", "xray_fail"}

\* the amounts handed to increment()
Amounts == {-1, 1, 2}

NoCounters == [n \in {} |-> 0]

\* CounterSystem.increment
increment(c, counter_name, amount) ==
  IF counter_name \in DOMAIN c
  THEN [c EXCEPT ![counter_name] = @ + amount]
  ELSE c @@ (counter_name :> amount)

\* CounterSystem.get
get(c, counter_name) ==
  IF counter_name \in DOMAIN c THEN c[counter_name] ELSE 0

\* CounterSystem.reset; counter_name "None" stands for the default argument
reset(c, counter_name) ==
  IF counter_name = "None" THEN NoCounters
  ELSE IF counter_name \in DOMAIN c THEN [c EXCEPT ![counter_name] = 0]
  ELSE c

\* EventDispatcher.subscribe
subscribe(d, event_type, callback) ==
  IF event_type \notin DOMAIN d.subscribers
  THEN [d EXCEPT !.subscribers = @ @@ (event_type :> <<callback>>)]
  ELSE [d EXCEPT !.subscribers[event_type] = Append(@, callback)]

\* the subscriptions of MaterialFlowEngine._subscribe_to_events, in order
FlowHandlers ==
  << <<"INGOT_RECEIVED", "_on_ingot_received">>,
     <<"FURNACE_MELT_READY", "_on_furnace_melt_ready">>,
     <<"DEGASSER_COMPLETE", "_on_degasser_complete">>,
     <<"LPDC_CYCLE_COMPLETE", "_on_lpdc_complete">>,
     <<"COOLING_COMPLETE", "_on_cooling_complete">>,
     <<"HEAT_TREATMENT_COMPLETE", "_on_heat_treatment_complete">>,
     <<"CNC_CYCLE_COMPLETE", "_on_cnc_complete">>,
     <<"PRETREATMENT_COMPLETE", "_on_pretreatment_complete">>,
     <<"PAINT_COMPLETE", "_on_paint_complete">>,
     <<"XRAY_PASS", "_on_xray_pass">>,
     <<"XRAY_FAIL", "_on_xray_fail">>,
     <<"INSPECTION_PASS", "_on_inspection_pass">>,
     <<"INSPECTION_FAIL", "_on_inspection_fail">>,
     <<"PACKING_COMPLETE", "_on_packing_complete">> >>

\* MaterialFlowEngine._subscribe_to_events
RECURSIVE subscribe_from(_, _)
subscribe_from(d, i) ==
  IF i > Len(FlowHandlers) THEN d
  ELSE subscribe_from(subscribe(d, FlowHandlers[i][1], FlowHandlers[i][2]), i + 1)

subscribe_to_events(d) == subscribe_from(d, 1)

\* WIPTracker: stage -> list of part identifiers, defined on the stages
\* added to so far; "None" is the identifier of an event without one
NoWip == [st \in {} |-> <<>>]

\* WIPTracker.add
add(w, stage, part_id) ==
  IF stage \notin DOMAIN w
  THEN w @@ (stage :> <<part_id>>)
  ELSE [w EXCEPT ![stage] = Append(@, part_id)]

\* WIPTracker.remove: the tracker afterwards
remove(w, stage, part_id) ==
  IF stage \notin DOMAIN w \/ w[stage] = <<>> THEN w
  ELSE IF part_id = "None" THEN [w EXCEPT ![stage] = Tail(@)]
  ELSE IF \E i \in 1..Len(w[stage]) : w[stage][i] = part_id
       THEN LET i == CHOOSE k \in 1..Len(w[stage]) :
                       /\ w[stage][k] = part_id
                       /\ \A j \in 1..(k - 1) : w[stage][j] # part_id
            IN  [w EXCEPT ![stage] = SubSeq(@, 1, i - 1) \o SubSeq(@, i + 1, Len(@))]
       ELSE w

\* event.data.get('part_id')
part_id_of(event) ==
  IF "part_id" \in DOMAIN event THEN event.part_id ELSE "None"

\* the identifiers _on_ingot_received makes up for an event without one
PartName(n) == <<"part_1", "part_2", "part_3", "part_4", "part_5">>[n]

\* _on_ingot_received
on_ingot_received(f, event) ==
  LET c1 == increment(f.counters, "inbound_received", 1)
      id == IF part_id_of(event) = "None"
            THEN PartName(get(c1, "inbound_received")) ELSE part_id_of(event)
  IN  [f EXCEPT !.counters = c1, !.wip = add(@, "melting_queue", id)]

\* a handler that applies a yield: _on_furnace_melt_ready, _on_degasser_complete,
\* _on_lpdc_complete, _on_heat_treatment_complete, _on_cnc_complete, _on_paint_complete
on_yield(f, counter, scrap, src, dst, event, pass) ==
  LET c1 == increment(f.counters, counter, 1)
      id == part_id_of(event)
  IN  IF pass
      THEN [f EXCEPT !.counters = c1, !.draws = @ + 1,
                     !.wip = add(remove(@, src, id), dst, id)]
      ELSE [f EXCEPT !.counters = increment(c1, scrap, 1), !.draws = @ + 1,
                     !.wip = remove(@, src, id)]

\* a handler that moves the part on: _on_cooling_complete,
\* _on_pretreatment_complete, _on_xray_pass, _on_inspection_pass
on_move(f, counter, src, dst, event) ==
  [f EXCEPT !.counters = increment(@, counter, 1),
            !.wip = add(remove(@, src, part_id_of(event)), dst, part_id_of(event))]

\* a handler that takes the part off the line: _on_xray_fail,
\* _on_inspection_fail, _on_packing_complete
on_leave(f, counter, src, event) ==
  [f EXCEPT !.counters = increment(@, counter, 1),
            !.wip = remove(@, src, part_id_of(event))]

\* SimulationEngine.__init__: EventDispatcher() and MaterialFlowEngine(dispatcher)
NewFlowEngine ==
  [ built      |-> TRUE,
    dispatcher |-> subscribe_to_events([subscribers |-> [t \in {} |-> <<>>],
                                        event_log   |-> <<>>]),
    counters   |-> NoCounters,
    wip        |-> NoWip,
    draws      |-> 0 ]

\* one callback called with the event; pass is the outcome of the yield draw
\* a flow-engine handler makes
invoke(f, callback, event, pass) ==
  CASE callback = "_on_ingot_received" -> on_ingot_received(f, event)
    [] callback = "_on_furnace_melt_ready" ->
         on_yield(f, "furnace_melt", "furnace_scrap", "melting_queue", "degasser_queue", event, pass)
    [] callback = "_on_degasser_complete" ->
         on_yield(f, "degasser_processed", "degasser_scrap", "degasser_queue", "lpdc_queue", event, pass)
    [] callback = "_on_lpdc_complete" ->
         on_yield(f, "lpdc_cast", "lpdc_scrap", "lpdc_queue", "cooling_queue", event, pass)
    [] callback = "_on_cooling_complete" ->
         on_move(f, "cooling_complete", "cooling_queue", "heat_treatment_queue", event)
    [] callback = "_on_heat_treatment_complete" ->
         on_yield(f, "heat_treatment_complete", "heat_treatment_scrap",
                  "heat_treatment_queue", "cnc_queue", event, pass)
    [] callback = "_on_cnc_complete" ->
         on_yield(f, "cnc_machined", "cnc_scrap", "cnc_queue", "pretreatment_queue", event, pass)
    [] callback = "_on_pretreatment_complete" ->
         on_move(f, "pretreatment_complete", "pretreatment_queue", "paint_queue", event)
    [] callback = "_on_paint_complete" ->
         on_yield(f, "paint_complete", "paint_scrap", "paint_queue", "xray_queue", event, pass)
    [] callback = "_on_xray_pass" ->
         on_move(f, "xray_pass", "xray_queue", "inspection_queue", event)
    [] callback = "_on_xray_fail" -> on_leave(f, "xray_fail", "xray_queue", event)
    [] callback = "_on_inspection_pass" ->
         on_move(f, "inspection_pass", "inspection_queue", "packing_queue", event)
    [] callback = "_on_inspection_fail" ->
         on_leave(f, "inspection_fail", "inspection_queue", event)
    [] callback = "_on_packing_complete" ->
         on_leave(f, "packing_complete", "packing_queue", event)
    [] OTHER -> f

\* the callbacks cbs[i..] called one after the other; invoked lists the
\* calls made, in the order they were made
RECURSIVE notify(_, _, _, _, _, _)
notify(f, cbs, i, event, pass, invoked) ==
  IF i > Len(cbs) THEN [f |-> f, invoked |-> invoked]
  ELSE notify(invoke(f, cbs[i], event, pass), cbs, i + 1, event, pass,
              Append(invoked, cbs[i]))

\* the callbacks cbs[..i] called last to first
RECURSIVE notify_lifo(_, _, _, _, _, _)
notify_lifo(f, cbs, i, event, pass, invoked) ==
  IF i < 1 THEN [f |-> f, invoked |-> invoked]
  ELSE notify_lifo(invoke(f, cbs[i], event, pass), cbs, i - 1, event, pass,
                   Append(invoked, cbs[i]))

\* an emit that walks the subscriber list backwards
emit_lifo(f, event, pass) ==
  LET f1 == [f EXCEPT !.dispatcher.event_log = Append(@, event)]
  IN  IF event.type \in DOMAIN f1.dispatcher.subscribers
      THEN notify_lifo(f1, f1.dispatcher.subscribers[event.type],
                       Len(f1.dispatcher.subscribers[event.type]), event, pass, <<>>)
      ELSE [f |-> f1, invoked |-> <<>>]

\* EventDispatcher.emit: log the event, then call the subscribers of its type
emit(f, event, pass) ==
  LET f1 == [f EXCEPT !.dispatcher.event_log = Append(@, event)]
  IN  IF event.type \in DOMAIN f1.dispatcher.subscribers
      THEN notify(f1, f1.dispatcher.subscribers[event.type], 1, event, pass, <<>>)
      ELSE [f |-> f1, invoked |-> <<>>]

\* EventDispatcher.get_event_log: a copy of the log
get_event_log(d) == d.event_log

\* EventDispatcher.clear_log
clear_log(d) == [d EXCEPT !.event_log = <<>>]

\* an engine just constructed; drv counts the calls made to its flow engine
InitFlow ==
  /\ machines = [id \in {} |-> NoItem]
  /\ orch = NoOrch
  /\ ticks = 0
  /\ sim_time = 0
  /\ power_state = "NoPLC"
  /\ last = NoCall
  /\ ncmd = [machine |-> 0, plc |-> 0]
  /\ drv = [emits |-> 0, subs |-> 0, ops |-> 0]
  /\ twin = NoTwin
  /\ snapshots = <<>>
  /\ flow = NewFlowEngine
  /\ physics = NoPhysics

FlowFrame ==
  UNCHANGED <<machines, orch, ticks, sim_time, power_state, ncmd, twin, snapshots, physics>>

\* a client subscribes one of its callbacks
Subscribe ==
  \E t \in EventTypes, cb \in Probes :
    /\ drv.subs < MaxSubscriptions
    /\ flow' = [flow EXCEPT !.dispatcher = subscribe(@, t, cb)]
    /\ drv' = [drv EXCEPT !.subs = @ + 1]
    /\ last' = Call("subscribe", t, TRUE, <<cb>>, NoPre)
    /\ FlowFrame

\* a machine emits an event; the timestamp is the number of the emission
Emit ==
  \E t \in EventTypes, pass \in BOOLEAN :
    \E r \in {emit(flow, [type |-> t, timestamp |-> drv.emits + 1], pass)} :
      /\ drv.emits < MaxEvents
      /\ pass \/ t = "LPDC_CYCLE_COMPLETE"
      /\ flow' = r.f
      /\ drv' = [drv EXCEPT !.emits = @ + 1]
      /\ last' = Call("emit", t, TRUE, r.invoked, NoPre)
      /\ FlowFrame

ClearLog ==
  /\ flow.dispatcher.event_log # <<>>
  /\ flow' = [flow EXCEPT !.dispatcher = clear_log(@)]
  /\ last' = Call("clear_log", "dispatcher", TRUE, <<>>, NoPre)
  /\ UNCHANGED drv
  /\ FlowFrame

NextEvents ==
  \/ Subscribe
  \/ Emit
  \/ ClearLog

SpecEvents == InitFlow /\ [][NextEvents]_vars

\* the event types a machine or client emits with a part: the inbound event,
\* three completions with a yield, one without, and one that ends a part
PartEventTypes ==
  {"INGOT_RECEIVED", "FURNACE_MELT_READY", "DEGASSER_COMPLETE",
   "LPDC_CYCLE_COMPLETE", "COOLING_COMPLETE", "XRAY_FAIL"}

\* the part_id entry of the event's data; "None" is an event with data {}
PartIds == {"None", "ingot_a"}

\* an event is emitted with its data; pass is the outcome of the yield draw
EmitPart ==
  \E t \in PartEventTypes, id \in PartIds, pass \in BOOLEAN :
    \E e \in {IF id = "None" THEN [type |-> t, timestamp |-> drv.emits + 1]
              ELSE [type |-> t, timestamp |-> drv.emits + 1, part_id |-> id]} :
      \E r \in {emit(flow, e, pass)} :
        /\ drv.emits < MaxPartEvents
        /\ pass \/ t \in {"FURNACE_MELT_READY", "DEGASSER_COMPLETE", "LPDC_CYCLE_COMPLETE"}
        /\ flow' = r.f
        /\ drv' = [drv EXCEPT !.emits = @ + 1]
        /\ last' = Call("emit", t, pass, <<id>>, NoPre)
        /\ FlowFrame

NextWip == EmitPart

SpecWip == InitFlow /\ [][NextWip]_vars

\* a direct call of CounterSystem.increment
Increment ==
  \E n \in CounterNames, a \in Amounts :
    /\ drv.ops < MaxCounterOps
    /\ flow' = [flow EXCEPT !.counters = increment(@, n, a)]
    /\ drv' = [drv EXCEPT !.ops = @ + 1]
    /\ last' = Call("increment", n, TRUE, <<a>>, NoPre)
    /\ FlowFrame

\* a direct call of CounterSystem.reset, with a name or with none
Reset ==
  \E n \in CounterNames \cup {"None"} :
    /\ drv.ops < MaxCounterOps
    /\ flow' = [flow EXCEPT !.counters = reset(@, n)]
    /\ drv' = [drv EXCEPT !.ops = @ + 1]
    /\ last' = Call("reset", n, TRUE, <<>>, NoPre)
    /\ FlowFrame

\* apply_yield and apply_defect_rate draw from the seeded generator and
\* return the comparison; the draw is all they change
ApplyYield ==
  \E pass \in BOOLEAN :
    /\ drv.ops < MaxCounterOps
    /\ flow' = [flow EXCEPT !.draws = @ + 1]
    /\ drv' = [drv EXCEPT !.ops = @ + 1]
    /\ last' = Call("apply_yield", "counters", pass, <<>>, NoPre)
    /\ FlowFrame

ApplyDefectRate ==
  \E defective \in BOOLEAN :
    /\ drv.ops < MaxCounterOps
    /\ flow' = [flow EXCEPT !.draws = @ + 1]
    /\ drv' = [drv EXCEPT !.ops = @ + 1]
    /\ last' = Call("apply_defect_rate", "counters", defective, <<>>, NoPre)
    /\ FlowFrame

NextCounters ==
  \/ Increment
  \/ Reset
  \/ ApplyYield
  \/ ApplyDefectRate
  \/ Emit

SpecCounters == InitFlow /\ [][NextCounters]_vars

(***************************************************************************)
(* The physics models (physics/), each specified on its own: physics is    *)
(* the model object, inputs the dictionary handed to step().  Times are    *)
(* ms; percentages (fill height, progress) are thousandths of a percent.   *)
(***************************************************************************)
\* the time steps handed to step(): the engine's 0.2 s and a coarse 1 s
PhysicsDts == {200, 1000}

\* the unique natural number whose square is n (the inputs are squares)
Sqrt(n) == CHOOSE r \in 0..n : r * r = n

(***************************************************************************)
(* LPDCPhysics (lpdc_physics.py).                                          *)
(***************************************************************************)
k_fill == 2
hold_time == 5000
solidification_time == 10000

\* LPDCPhysics.__init__
NewLpdc ==
  [ model                   |-> "lpdc",
    state                   |-> "IDLE",
    timer                   |-> 0,
    fill_height             |-> 0,
    solidification_progress |-> 0,
    pressure                |-> 0,
    cycle_running           |-> FALSE,
    last_to_solidify        |-> FALSE ]

\* LPDCPhysics.reset
lpdc_reset(p) == NewLpdc

\* the input dictionaries: pressure setpoints below, inside and above [0, 100]
LpdcInputs ==
  [pour_request : BOOLEAN, pressure_setpoint : {-4, 0, 25, 100, 144},
   reset_request : BOOLEAN]

\* a finished cycle that a pour request restarts at once
lpdc_complete_repour(p, inputs) ==
  IF inputs.pour_request
  THEN [p EXCEPT !.state = "FILLING", !.fill_height = 0,
                 !.solidification_progress = 0, !.timer = 0,
                 !.cycle_running = TRUE, !.pressure = 0]
  ELSE IF inputs.reset_request
  THEN [p EXCEPT !.state = "IDLE", !.fill_height = 0, !.cycle_running = FALSE,
                 !.solidification_progress = 0, !.last_to_solidify = FALSE,
                 !.pressure = 0]
  ELSE [p EXCEPT !.cycle_running = FALSE, !.pressure = 0]

\* a filling stage that hands over to solidification without the hold
lpdc_filling_nohold(p, dt, pressure_setpoint) ==
  LET p1 == IF pressure_setpoint > 0
            THEN [p EXCEPT !.cycle_running = TRUE,
                           !.fill_height =
                             @ + k_fill * Sqrt(pressure_setpoint) * dt,
                           !.pressure = pressure_setpoint]
            ELSE [p EXCEPT !.cycle_running = TRUE, !.pressure = 0]
  IN  IF p1.fill_height >= 100000
      THEN [p1 EXCEPT !.fill_height = 100000,
                      !.state = "SOLIDIFYING",
                      !.timer = 0]
      ELSE p1

\* step() in IDLE: wait for a pour request
lpdc_idle(p, inputs) ==
  LET p1 == [p EXCEPT !.cycle_running = FALSE, !.last_to_solidify = FALSE]
  IN  IF inputs.pour_request
      THEN [p1 EXCEPT !.state = "FILLING",
                      !.fill_height = 0,
                      !.solidification_progress = 0,
                      !.timer = 0,
                      !.cycle_running = TRUE]
      ELSE p1

\* step() in FILLING: dh/dt = k_fill * sqrt(P)
lpdc_filling(p, dt, pressure_setpoint) ==
  LET p1 == IF pressure_setpoint > 0
            THEN [p EXCEPT !.cycle_running = TRUE,
                           !.fill_height =
                             @ + k_fill * Sqrt(pressure_setpoint) * dt,
                           !.pressure = pressure_setpoint]
            ELSE [p EXCEPT !.cycle_running = TRUE, !.pressure = 0]
  IN  IF p1.fill_height >= 100000
      THEN [p1 EXCEPT !.fill_height = 100000,
                      !.state = "HOLDING",
                      !.timer = 0]
      ELSE p1

\* step() in HOLDING: keep the pressure for the hold time
lpdc_holding(p, dt, pressure_setpoint) ==
  LET p1 == [p EXCEPT !.cycle_running = TRUE,
                      !.pressure = pressure_setpoint,
                      !.timer = @ + dt]
  IN  IF p1.timer >= hold_time
      THEN [p1 EXCEPT !.state = "SOLIDIFYING", !.timer = 0]
      ELSE p1

\* step() in SOLIDIFYING: progress linear in the time since the hold
lpdc_solidifying(p, dt) ==
  LET t  == p.timer + dt
      p1 == [p EXCEPT !.cycle_running = TRUE,
                      !.timer = t,
                      !.solidification_progress =
                        Min2(100000, (t * 100000) \div solidification_time),
                      !.pressure = 0]
  IN  IF p1.solidification_progress >= 100000
      THEN [p1 EXCEPT !.last_to_solidify = TRUE, !.state = "COMPLETE"]
      ELSE p1

\* step() in COMPLETE: wait for a reset request
lpdc_complete(p, inputs) ==
  LET p1 == [p EXCEPT !.cycle_running = FALSE, !.pressure = 0]
  IN  IF inputs.reset_request
      THEN [p1 EXCEPT !.state = "IDLE",
                      !.fill_height = 0,
                      !.solidification_progress = 0,
                      !.last_to_solidify = FALSE]
      ELSE p1

\* LPDCPhysics.step: the object after the call
lpdc_step(p, dt, inputs) ==
  LET pressure_setpoint == Max2(0, Min2(100, inputs.pressure_setpoint))
  IN  CASE p.state = "IDLE"        -> lpdc_idle(p, inputs)
        [] p.state = "FILLING"     -> lpdc_filling(p, dt, pressure_setpoint)
        [] p.state = "HOLDING"     -> lpdc_holding(p, dt, pressure_setpoint)
        [] p.state = "SOLIDIFYING" -> lpdc_solidifying(p, dt)
        [] p.state = "COMPLETE"    -> lpdc_complete(p, inputs)

(***************************************************************************)
(* CNCPhysics (cnc_physics.py).  Volumes are mm^3, rates mm^3 per second.  *)
(***************************************************************************)
MRR_roughing == 1000
MRR_finishing == 200
volume_total == 50000
RPM_roughing == 3000
RPM_finishing == 6000

\* CNCPhysics.__init__
NewCnc ==
  [ model       |-> "cnc",
    mode        |-> "roughing",
    progress    |-> 0,
    spindle_rpm |-> 0,
    busy        |-> FALSE,
    job_active  |-> FALSE ]

\* CNCPhysics.reset
cnc_reset(p) == NewCnc

\* the input dictionaries: the two modes and one the model does not know
CncInputs ==
  [trigger : BOOLEAN, mode : {"roughing", "finishing", "drilling"},
   reset_request : BOOLEAN]

\* step(): a trigger starts a job when none is active and progress is 0
cnc_trigger(p, inputs) ==
  LET mode == IF inputs.mode \in {"roughing", "finishing"}
              THEN inputs.mode ELSE "roughing"
  IN  IF inputs.trigger /\ ~p.job_active /\ p.progress = 0
      THEN [p EXCEPT !.job_active = TRUE, !.mode = mode,
                     !.progress = 0, !.busy = TRUE]
      ELSE p

\* step(): the active job removes MRR * dt of the volume
cnc_execute(p, dt) ==
  IF p.job_active /\ p.progress < 100000
  THEN LET MRR == IF p.mode = "roughing" THEN MRR_roughing ELSE MRR_finishing
       IN  [p EXCEPT !.progress = @ + (MRR * dt * 100) \div volume_total,
                     !.spindle_rpm = IF p.mode = "roughing"
                                     THEN RPM_roughing ELSE RPM_finishing,
                     !.busy = TRUE]
  ELSE p

\* step(): the job is complete at 100 percent
cnc_complete(p) ==
  IF p.progress >= 100000
  THEN [p EXCEPT !.progress = 100000, !.spindle_rpm = 0,
                 !.busy = FALSE, !.job_active = FALSE]
  ELSE p

\* step(): a reset request re-arms the model when no job is active
cnc_rearm(p, inputs) ==
  IF inputs.reset_request /\ ~p.job_active
  THEN [p EXCEPT !.progress = 0, !.spindle_rpm = 0, !.busy = FALSE]
  ELSE p

\* CNCPhysics.step: the object after the call
cnc_step(p, dt, inputs) ==
  cnc_rearm(cnc_complete(cnc_execute(cnc_trigger(p, inputs), dt)), inputs)

(***************************************************************************)
(* FurnacePhysics as an object of its own: T_current and the heating rate  *)
(* of the last step (milli-degrees per second).                            *)
(***************************************************************************)
\* the time steps handed to the thermal models: 1 s, 5 s and a coarse 30 s
ThermalDts == {1000, 5000, 30000}

\* FurnacePhysics.__init__
NewFurnace ==
  [ model        |-> "furnace",
    T_current    |-> T_ambient,
    heating_rate |-> 0 ]

\* FurnacePhysics.reset
furnace_reset(p) == NewFurnace

\* heater powers below, inside and above [0, 100]
FurnaceInputs == [heater_power : {-50, 0, 100, 150}]

\* step(): dT/dt after the ramp-rate constraint, milli-degrees per second
HeatingRate(T, pct) ==
  LET p        == Max2(0, Min2(100, pct))
      power_in == (p * P_max) \div 100
      raw      == (1000 * power_in - k_loss * (T - T_ambient)) \div C_thermal
  IN  Max2(-max_ramp_rate, Min2(max_ramp_rate, raw))

\* FurnacePhysics.step: the object after the call
furnace_step(p, dt, inputs) ==
  [p EXCEPT !.T_current    = PhysicsStep(p.T_current, inputs.heater_power, dt),
            !.heating_rate = HeatingRate(p.T_current, inputs.heater_power)]

(***************************************************************************)
(* CoolingPhysics (cooling_physics.py): temperatures in milli-degrees,     *)
(* the coolant flow and k_cool in thousandths.                             *)
(***************************************************************************)
T_part_initial == 500000
T_coolant == 25000
k_cool == 50
critical_cooling_rate == 50000
solidus_temp == 450000

\* CoolingPhysics.__init__
NewCooling ==
  [ model            |-> "cooling",
    T_part           |-> T_part_initial,
    cooling_rate     |-> 0,
    shrinkage_risk   |-> FALSE,
    last_to_solidify |-> FALSE ]

\* CoolingPhysics.reset
cooling_reset(p) == NewCooling

\* 'initial_temp' missing from the input dictionary
NoTemp == -1

\* coolant flows below, inside and above [0, 1]; a handed-over temperature
\* below the coolant's, above the casting's, or none
CoolingInputs ==
  [coolant_flow : {-500, 0, 500, 1000, 2000},
   initial_temp : {NoTemp, 10000, 700000}]

Abs(x) == IF x >= 0 THEN x ELSE -x

\* step(): Newton's law of cooling, dT/dt = -k * flow * (T - T_coolant)
CoolingRate(T, cf) ==
  -((((k_cool * cf) \div 1000) * (T - T_coolant)) \div 1000)

\* a step that lets the part fall below the coolant's temperature
cooling_step_nofloor(p, dt, inputs) ==
  LET coolant_flow == Max2(0, Min2(1000, inputs.coolant_flow))
      T0    == IF inputs.initial_temp # NoTemp THEN inputs.initial_temp ELSE p.T_part
      dT_dt == CoolingRate(T0, coolant_flow)
      T1    == T0 + (dT_dt * dt) \div 1000
  IN  [p EXCEPT !.T_part           = T1,
                !.cooling_rate     = Abs(dT_dt),
                !.shrinkage_risk   = Abs(dT_dt) > critical_cooling_rate,
                !.last_to_solidify = T1 < solidus_temp]

\* CoolingPhysics.step: the object after the call
cooling_step(p, dt, inputs) ==
  LET coolant_flow == Max2(0, Min2(1000, inputs.coolant_flow))
      T0    == IF inputs.initial_temp # NoTemp THEN inputs.initial_temp ELSE p.T_part
      dT_dt == CoolingRate(T0, coolant_flow)
      T1    == T0 + (dT_dt * dt) \div 1000
      below == T1 < T_coolant
      T2    == IF below THEN T_coolant ELSE T1
      rate  == IF below THEN 0 ELSE Abs(dT_dt)
  IN  [p EXCEPT !.T_part           = T2,
                !.cooling_rate     = rate,
                !.shrinkage_risk   = rate > critical_cooling_rate,
                !.last_to_solidify = T2 < solidus_temp]

PhysicsFrame ==
  UNCHANGED <<machines, orch, ticks, sim_time, power_state, ncmd, drv, twin,
              snapshots, flow>>

LpdcStep ==
  \E dt \in PhysicsDts, inputs \in LpdcInputs :
    /\ physics.model = "lpdc"
    /\ physics' = lpdc_step(physics, dt, inputs)
    /\ last' = Call("step", "lpdc", TRUE,
                    <<inputs.pour_request, inputs.reset_request, dt>>, NoPre)
    /\ PhysicsFrame

LpdcReset ==
  /\ physics.model = "lpdc"
  /\ physics' = lpdc_reset(physics)
  /\ last' = Call("reset", "lpdc", TRUE, <<>>, NoPre)
  /\ PhysicsFrame

CncStep ==
  \E dt \in PhysicsDts, inputs \in CncInputs :
    /\ physics.model = "cnc"
    /\ physics' = cnc_step(physics, dt, inputs)
    /\ last' = Call("step", "cnc", TRUE,
                    <<inputs.trigger, inputs.reset_request, dt>>, NoPre)
    /\ PhysicsFrame

CncReset ==
  /\ physics.model = "cnc"
  /\ physics' = cnc_reset(physics)
  /\ last' = Call("reset", "cnc", TRUE, <<>>, NoPre)
  /\ PhysicsFrame

FurnaceStep ==
  \E dt \in ThermalDts, inputs \in FurnaceInputs :
    /\ physics.model = "furnace"
    /\ drv.ticks < MaxPhysicsSteps
    /\ physics' = furnace_step(physics, dt, inputs)
    /\ drv' = [drv EXCEPT !.ticks = @ + 1]
    /\ last' = Call("step", "furnace", TRUE,
                    <<inputs.heater_power, dt, physics.T_current>>, NoPre)
    /\ UNCHANGED <<machines, orch, ticks, sim_time, power_state, ncmd, twin,
                   snapshots, flow>>

FurnaceReset ==
  /\ physics.model = "furnace"
  /\ physics' = furnace_reset(physics)
  /\ last' = Call("reset", "furnace", TRUE, <<>>, NoPre)
  /\ PhysicsFrame

CoolingStep ==
  \E dt \in ThermalDts, inputs \in CoolingInputs :
    /\ physics.model = "cooling"
    /\ drv.ticks < MaxPhysicsSteps
    /\ physics' = cooling_step(physics, dt, inputs)
    /\ drv' = [drv EXCEPT !.ticks = @ + 1]
    /\ last' = Call("step", "cooling", TRUE,
                    <<inputs.coolant_flow, inputs.initial_temp, dt,
                      physics.T_part>>, NoPre)
    /\ UNCHANGED <<machines, orch, ticks, sim_time, power_state, ncmd, twin,
                   snapshots, flow>>

CoolingReset ==
  /\ physics.model = "cooling"
  /\ physics' = cooling_reset(physics)
  /\ last' = Call("reset", "cooling", TRUE, <<>>, NoPre)
  /\ PhysicsFrame

(***************************************************************************)
(* The physics specification: one model is built and driven through        *)
(* step() and reset().                                                     *)
(***************************************************************************)
NewPhysics == {NewLpdc, NewCnc, NewFurnace, NewCooling}

InitPhysics ==
  /\ machines = [id \in {} |-> NoItem]
  /\ orch = NoOrch
  /\ ticks = 0
  /\ sim_time = 0
  /\ power_state = "NoPLC"
  /\ last = NoCall
  /\ ncmd = [machine |-> 0, plc |-> 0]
  /\ drv = [ticks |-> 0, items |-> 0]
  /\ twin = NoTwin
  /\ snapshots = <<>>
  /\ flow = NoFlow
  /\ physics \in NewPhysics

NextPhysics ==
  \/ LpdcStep
  \/ LpdcReset
  \/ CncStep
  \/ CncReset
  \/ FurnaceStep
  \/ FurnaceReset
  \/ CoolingStep
  \/ CoolingReset

SpecPhysics == InitPhysics /\ [][NextPhysics]_vars

(***************************************************************************)
(* SimulationEngine.get_all_tags().  A tag name "<id>.<tag>" is the pair   *)
(* <<id, tag>>, "Plant.WIP.<key>" is <<"Plant.WIP", key>> and              *)
(* "Plant.KPI.<key>" is <<"Plant.KPI", key>>.                              *)
(***************************************************************************)
KPI_KEYS ==
  {"total_ingots_consumed", "total_wheels_produced", "total_scrap",
   "batches_completed", "throughput_wheels_hr", "yield_percent"}

\* the names under which the machines report: every get_tags() key
MachineTagNames(ms) ==
  UNION {{<<id, get_tags(id, ms[id]).trail[i]>> :
            i \in 1..Len(get_tags(id, ms[id]).trail)} : id \in DOMAIN ms}

\* the names of the plant entries: one per key of the copies the
\* orchestrator hands out, none while there is no orchestrator
PlantTagNames(o) ==
  IF o.created
  THEN {<<"Plant.WIP", k>> : k \in DOMAIN get_wip_state(o).val} \union
       {<<"Plant.KPI", k>> : k \in DOMAIN get_kpis(o).val}
  ELSE {}

\* get_all_tags: the machines and the orchestrator after the call and the
\* names of the dictionary it returns
get_all_tags(ms, o) ==
  [ms   |-> [id \in DOMAIN ms |-> get_tags(id, ms[id]).m],
   o    |-> o,
   tags |-> MachineTagNames(ms) \union PlantTagNames(o)]

\* the SCADA layer reads all tags; ret tells whether the plant entries were
\* among them
GetAllTags ==
  \E r \in {get_all_tags(machines, orch)} :
    /\ last.op # "get_all_tags"
    /\ machines' = r.ms
    /\ orch' = r.o
    /\ last' = Call("get_all_tags", "engine",
                    \E k \in WIP_KEYS : <<"Plant.WIP", k>> \in r.tags, <<>>, NoPre)
    /\ UNCHANGED <<ticks, sim_time, power_state, ncmd, drv, twin, snapshots,
                   flow, physics>>

TagsStep == StepWithin(MaxBatchTicks)

TagsScan == \E start \in BOOLEAN, stop \in BOOLEAN : ScanWithin(start, stop, MaxBatchTicks)

NextTags ==
  \/ TagsStep
  \/ TagsScan
  \/ GetAllTags

SpecTags == Init /\ [][NextTags]_vars

(***************************************************************************)
(* Construction with a cycle time of the caller's choice.  The machine     *)
(* built here carries its cycle_time (ms) as a field and its progress in   *)
(* thousandths of a percent, as _execute_running_logic computes it.        *)
(***************************************************************************)
\* cycle times handed to the constructor: negative, zero, positive
CycleTimes == {-400, 0, 400}

\* ParamValidator.validate_positive: raises below zero only
validate_positive(value) ==
  [exc |-> IF value < 0 THEN "ValueError" ELSE "none", value |-> value]

\* SimpleMachine.__init__: the cycle time is stored as given
SimpleMachine_init(id, ct) ==
  [exc |-> "none", m |-> NewMachine(id) @@ [cycle_time |-> ct]]

\* SimpleMachine._execute_running_logic of a generic machine whose cycle
\* time is the field: [m |-> the machine when the call ends, exc |-> what
\* it raised]
RunningLogicWith(m, dt) ==
  LET starved == m.current_item = NoItem /\ m.queue_in = <<>>
      m1 == IF m.current_item = NoItem /\ m.queue_in # <<>>
            THEN [m EXCEPT !.current_item = Head(m.queue_in),
                           !.queue_in = Tail(@),
                           !.progress = 0,
                           !.cmd_trigger = FALSE,
                           !.cmd_pour_request = FALSE]
            ELSE m
  IN  IF starved THEN [m |-> m, exc |-> "none"]
      ELSE IF m1.cycle_time = 0 THEN [m |-> m1, exc |-> "ZeroDivisionError"]
      ELSE LET p == m1.progress + (dt * 100000) \div m1.cycle_time
           IN  IF p >= 100000
               THEN [m |-> [m1 EXCEPT !.queue_out = Append(@, m1.current_item),
                                      !.current_item = NoItem,
                                      !.processed_count = @ + 1,
                                      !.progress = 0],
                     exc |-> "none"]
               ELSE [m |-> [m1 EXCEPT !.progress = p], exc |-> "none"]

\* BaseMachine.tick of that machine (a SimpleMachine detects no fault)
TickWith(m, dt) ==
  IF m.state = "RUNNING" THEN RunningLogicWith(m, dt)
  ELSE [m |-> m, exc |-> "none"]

Built == DOMAIN machines # {}

InitConstruct ==
  /\ machines = [id \in {} |-> NoItem]
  /\ orch = NoOrch
  /\ ticks = 0
  /\ sim_time = 0
  /\ power_state = "NoPLC"
  /\ last = NoCall
  /\ ncmd = [machine |-> 0, plc |-> 0]
  /\ drv = [ticks |-> 0, items |-> 0]
  /\ twin = NoTwin
  /\ snapshots = <<>>
  /\ flow = NoFlow
  /\ physics = NoPhysics

\* a client constructs SimpleMachine("m_degasser", ..., cycle_time = ct)
Construct ==
  \E ct \in CycleTimes :
    \E c \in {SimpleMachine_init("m_degasser", ct)} :
      /\ ~Built
      /\ machines' = IF c.exc = "none" THEN ("m_degasser" :> c.m) ELSE machines
      /\ last' = Call("SimpleMachine", "m_degasser", c.exc = "none", <<c.exc>>, NoPre)
      /\ UNCHANGED drv
      /\ MachineFrame

CEnable == Built /\ MSetEnabled

CStart == Built /\ MStart

CReceive == Built /\ MReceive

CTick ==
  /\ Built
  /\ drv.ticks < MaxMachineTicks
  /\ \E r \in {TickWith(TheMachine, time_step)} :
       /\ machines' = (TheId :> r.m)
       /\ last' = Call("tick", TheId, r.exc = "none", <<r.exc>>, Pre(TheMachine))
  /\ drv' = [drv EXCEPT !.ticks = @ + 1]
  /\ MachineFrame

NextConstruct ==
  \/ Construct
  \/ CEnable
  \/ CStart
  \/ CReceive
  \/ CTick

SpecConstruct == InitConstruct /\ [][NextConstruct]_vars

(***************************************************************************)
(* An engine assembled by hand: SimulationEngine() with no PLC attached    *)
(* and add_machine() called for a collection of the caller's choice, here  *)
(* the orchestrated machines with at most one of them left out.  The       *)
(* caller brings the machines up itself and calls step().                  *)
(***************************************************************************)
PartialCollections == {MachineIds} \cup {MachineIds \ {a} : a \in MachineIds}

InitPartial ==
  /\ \E c \in PartialCollections : machines = [id \in c |-> NewMachine(id)]
  /\ orch = NoOrch
  /\ ticks = 0
  /\ sim_time = 0
  /\ power_state = "NoPLC"
  /\ last = NoCall
  /\ ncmd = [machine |-> 0, plc |-> 0]
  /\ drv = [ticks |-> 0, items |-> 0]
  /\ twin = NoTwin
  /\ snapshots = <<>>
  /\ flow = NoFlow
  /\ physics = NoPhysics

\* the caller enables every machine of the collection and starts it
PartialStartAll ==
  /\ \E id \in DOMAIN machines : machines[id].state = "IDLE"
  /\ machines' = [id \in DOMAIN machines |->
                    handle_start_command(id, [machines[id] EXCEPT !.enabled = TRUE]).m]
  /\ last' = Call("handle_start_command", "all", TRUE, <<>>, NoPre)
  /\ UNCHANGED <<orch, ticks, sim_time, power_state, ncmd, drv, twin, snapshots, flow, physics>>

PartialStep == StepWithin(MaxPartialTicks)

\* the caller hands a unit straight to the CNC through receive_item(), so
\* the unit is queued without the orchestrator's edge command
PartialReceive ==
  /\ "m_cnc" \in DOMAIN machines
  /\ drv.items < MaxItems
  /\ machines' = [machines EXCEPT !["m_cnc"] = receive_item("m_cnc", @, "HTPart")]
  /\ drv' = [drv EXCEPT !.items = @ + 1]
  /\ last' = Call("receive_item", "m_cnc", TRUE, <<"HTPart">>, Pre(machines["m_cnc"]))
  /\ UNCHANGED <<orch, ticks, sim_time, power_state, ncmd, twin, snapshots, flow, physics>>

NextPartial ==
  \/ PartialStartAll
  \/ PartialStep
  \/ PartialReceive

SpecPartial == InitPartial /\ [][NextPartial]_vars

(***************************************************************************)
(* Replay: two runs of the same line from the same initial state, given    *)
(* the same PLC scans, the same commands and the same number of steps.     *)
(* machines and orch are the first run, twin the second; the random        *)
(* reject draws of the two runs are independent.                           *)
(***************************************************************************)
InitReplay ==
  /\ machines = [id \in MachineIds |-> NewMachine(id)]
  /\ orch = NoOrch
  /\ ticks = 0
  /\ sim_time = 0
  /\ power_state = "OFF"
  /\ last = NoCall
  /\ ncmd = [machine |-> 0, plc |-> 0]
  /\ drv = [ticks |-> 0, items |-> 0]
  /\ twin = [active |-> TRUE, ms |-> [id \in MachineIds |-> NewMachine(id)], o |-> NoOrch]
  /\ snapshots = <<>>
  /\ flow = NoFlow
  /\ physics = NoPhysics

\* both runs take one un-gated step (or both are held by the gate)
ReplayStep ==
  /\ ticks < MaxReplayTicks
  /\ IF Gated
       THEN /\ UNCHANGED <<machines, orch, sim_time, ticks, twin>>
            /\ last' = Call("step", "engine", FALSE, <<>>, NoPre)
       ELSE /\ \E d \in Draws : RunStep(d)
            /\ \E e \in DrawsOf(twin.ms, twin.o) :
                 LET q == StepPlant([ms |-> twin.ms, o |-> twin.o, exc |-> "none"], sim_time,
                                    e[1], e[2], e[3])
                 IN  twin' = [twin EXCEPT !.ms = q.ms, !.o = q.o]
  /\ UNCHANGED <<power_state, ncmd, drv, snapshots, flow, physics>>

\* both PLCs see the same start and stop tags and change power state
ReplayPower(start, stop) ==
  LET ps2 == handle_power_inputs(power_state, start, stop)
      in(ms)  == handle_device_inputs(IF start THEN EnableDevices(ms) ELSE ms, Written)
      seq(ms) == IF ps2 = "STARTING"
                 THEN StartingSequence(in(ms))
                 ELSE StoppingSequence(in(ms))
  IN  /\ ps2 \in {"STARTING", "STOPPING"}
      /\ ncmd.plc < MaxPowerChanges
      /\ ncmd' = [ncmd EXCEPT !.plc = @ + 1]
      /\ machines' = seq(machines)
      /\ twin' = [twin EXCEPT !.ms = seq(twin.ms)]
      /\ power_state' = IF ps2 = "STARTING" THEN "RUNNING" ELSE "OFF"
      /\ last' = Call("scan", "plc", FALSE, <<ps2>>, NoPre)
      /\ UNCHANGED <<orch, sim_time, ticks, drv, snapshots, flow, physics>>

ReplayScan == \E start \in BOOLEAN, stop \in BOOLEAN : ReplayPower(start, stop)

\* the machines that receive commands during a replay: the furnace and the
\* die-casting machine whose consumption drives the furnace's flow control
ReplayDevices == {"m_furnace", "m_lpdc"}

\* the same set_command call reaches both runs
ReplayCommand ==
  \E id \in ReplayDevices, c \in CommandNames, v \in BOOLEAN :
    LET m == set_command(id, machines[id], c, v)
        n == set_command(id, twin.ms[id], c, v)
    IN  /\ m # machines[id] \/ n # twin.ms[id]
        /\ ncmd.machine < MaxCmds
        /\ machines' = [machines EXCEPT ![id] = m]
        /\ twin' = [twin EXCEPT !.ms[id] = n]
        /\ last' = Call("set_command", id, v, <<c>>, Pre(machines[id]))
        /\ ncmd' = [ncmd EXCEPT !.machine = @ + 1]
        /\ UNCHANGED <<orch, sim_time, ticks, power_state, drv, snapshots, flow, physics>>

NextReplay ==
  \/ ReplayStep
  \/ ReplayScan
  \/ ReplayCommand

SpecReplay == InitReplay /\ [][NextReplay]_vars

(***************************************************************************)
(* Properties of the machine framework.                                    *)
(***************************************************************************)
SeqRange(q) == {q[i] : i \in 1..Len(q)}

\* a reset request: handle_reset_command() or set_command("reset", True)
IsReset(c) ==
  \/ c.op = "handle_reset_command"
  \/ c.op = "set_command" /\ c.trail = <<"reset">> /\ c.ret

\* C1: handle_start_command() on an IDLE machine with enabled = false returns
\* false and leaves state FAULTED with fault_code 101; the machine is never
\* assigned RUNNING and the on-start hook is not invoked.
C1_StartDisabledFaults ==
  (last.op = "handle_start_command" /\ last.pre.state = "IDLE" /\ ~last.pre.enabled)
    => /\ ~last.ret
       /\ machines[last.id].state = "FAULTED"
       /\ machines[last.id].fault_code = 101
       /\ "RUNNING" \notin SeqRange(last.trail)
       /\ "_on_start" \notin SeqRange(last.trail)

C1_Witness ==
  /\ last.op = "handle_start_command"
  /\ last.pre.state = "IDLE"
  /\ ~last.pre.enabled
  /\ machines[last.id].state = "FAULTED"

\* C2: handle_reset_command() on a FAULTED machine, whatever its fault code,
\* returns true and leaves state IDLE with fault_code 0.
C2_ResetFromFaulted ==
  (last.op = "handle_reset_command" /\ last.pre.state = "FAULTED")
    => /\ last.ret
       /\ machines[last.id].state = "IDLE"
       /\ machines[last.id].fault_code = 0

C2_Witness ==
  /\ last.op = "handle_reset_command"
  /\ last.pre.state = "FAULTED"
  /\ last.pre.fault_code = 101
  /\ machines[last.id].state = "IDLE"

C12_ForceSafeStops ==
  last.op = "force_safe_state" =>
    machines[last.id].state =
      (IF last.pre.state = "RUNNING" THEN "STOPPED" ELSE last.pre.state)

\* C13: set_command(name, false) changes no machine field, for every command
\* name and machine type; a pending trigger or pour_request stays pending.
C13_FalseIgnored ==
  [][(last'.op = "set_command" /\ ~last'.ret) => machines' = machines]_vars

\* the fields the running-logic hook works on are the same in a and b
SameLogicState(a, b) ==
  /\ a.queue_in = b.queue_in
  /\ a.queue_out = b.queue_out
  /\ a.queue_reject = b.queue_reject
  /\ a.current_item = b.current_item
  /\ a.progress = b.progress
  /\ a.processed_count = b.processed_count

C15_StartStopOnlyWhenValid ==
  [][/\ (last'.op = "handle_start_command" /\ TheMachine.state # "IDLE")
          => (~last'.ret /\ machines' = machines)
     /\ (last'.op = "handle_stop_command" /\ TheMachine.state # "RUNNING")
          => (~last'.ret /\ machines' = machines)]_vars

C15_Witness ==
  /\ last.op = "handle_start_command"
  /\ last.pre.state = "STOPPED"
  /\ ~last.pre.enabled
  /\ ~last.ret
  /\ TheMachine.state = "STOPPED"
  /\ TheMachine.fault_code = 0
  /\ TheMachine.current_item # NoItem

\* C16: a non-zero fault_code goes back to 0 only through a reset, and a
\* reset issued while the cause still holds (fault 101, enabled still false)
\* does not bring the machine back to IDLE with fault_code 0.
C16_FaultClearedOnlyWhenCauseGone ==
  /\ [][(TheMachine.fault_code # 0 /\ TheMachine'.fault_code = 0)
          => IsReset(last')]_vars
  /\ [](~(/\ IsReset(last)
          /\ last.pre.state = "FAULTED"
          /\ last.pre.fault_code = 101
          /\ ~last.pre.enabled
          /\ machines[last.id].state = "IDLE"
          /\ machines[last.id].fault_code = 0))

\* C17: get_tags() returns in every FSM state of every machine type, its
\* result has entries for state, enabled, fault_code and processed_count,
\* and the call changes no machine field, queue or physics state.
C17_GetTagsReadOnly ==
  /\ [](last.op = "get_tags" =>
          /\ last.ret
          /\ {"state", "enabled", "fault_code", "processed_count"}
               \subseteq SeqRange(last.trail))
  /\ [][last'.op = "get_tags" => machines' = machines]_vars

C17_Witness ==
  /\ last.op = "get_tags"
  /\ last.pre.state = "FAULTED"
  /\ TheMachine.current_item # NoItem
  /\ TheMachine.progress > 0
  /\ TheMachine.queue_out # <<>>

(***************************************************************************)
(* Properties of the engine and the orchestrator.                          *)
(***************************************************************************)
\* the call just made was a step() that got past the gate
RanStep == last.op = "step" /\ last.ret

\* C4: step() called while the run predicate is false changes nothing:
\* sim_time, ticks, the orchestrator (not even created) and every machine
\* field stay as they were.
C4_GatedStepIsNoOp ==
  [][(last'.op = "step" /\ power_state # "RUNNING")
       => UNCHANGED <<machines, orch, ticks, sim_time>>]_vars

C4_Witness ==
  /\ last.op = "step"
  /\ power_state = "OFF"
  /\ ticks > 0
  /\ machines["m_furnace"].current_item # NoItem

\* C5: an un-gated step runs the orchestrator first (a unit pushed to a
\* running machine is loaded in the same step), ticks every machine exactly
\* once with dt = time_step, and then advances the clock by one time_step;
\* sim_time = ticks * time_step and the clock never decreases.
C5_StepOrder ==
  /\ [](sim_time = ticks * time_step)
  /\ [](RanStep => \A id \in {"m_degasser", "m_paint1", "m_inspect", "m_pack", "m_outbound"} :
                      machines[id].state = "RUNNING" => machines[id].queue_in = <<>>)
  /\ [][/\ ticks' >= ticks
        /\ sim_time' >= sim_time
        /\ (last'.op = "step" /\ last'.ret) =>
             /\ ticks' = ticks + 1
             /\ sim_time' = sim_time + time_step
             /\ \A id \in {"m_furnace", "m_heat"} :
                  machines'[id].T_current =
                    PhysicsStep(machines[id].T_current,
                                IF machines[id].state = "RUNNING"
                                THEN machines[id].heater_power ELSE 0,
                                time_step)
             /\ \A id \in MachineIds :
                  (/\ Kind(id) # "thermal"
                   /\ machines[id].state = "RUNNING"
                   /\ machines[id].current_item # NoItem
                   /\ machines[id].progress + time_step < cycle_time(id))
                  => machines'[id].progress = machines[id].progress + time_step]_vars

C5_Witness ==
  /\ RanStep
  /\ ticks >= 3
  /\ machines["m_lpdc"].current_item # NoItem
  /\ machines["m_lpdc"].progress = 2 * time_step
  /\ machines["m_degasser"].current_item # NoItem

\* C6: every entry of the WIP ledger is non-negative in every reachable state.
C6_WipNonNegative == \A k \in WIP_KEYS : orch.wip[k] >= 0

C6_Witness ==
  /\ RanStep
  /\ ncmd.machine >= 1
  /\ orch.kpis.total_scrap >= 1
  /\ orch.kpis.batches_completed >= 1
  /\ orch.wip["painted_parts"] = 0

\* units a machine holds: input queue, in-flight item, output and reject queues
Held(m) ==
  Len(m.queue_in) + (IF m.current_item # NoItem THEN 1 ELSE 0)
    + Len(m.queue_out) + Len(m.queue_reject)

\* units held by the stage machines MachineOrder[i..], outbound excluded
RECURSIVE HeldFrom(_)
HeldFrom(i) ==
  IF i > Len(MachineOrder) THEN 0
  ELSE (IF MachineOrder[i] # "m_outbound" THEN Held(machines[MachineOrder[i]]) ELSE 0)
         + HeldFrom(i + 1)

\* units in the WIP buffers between the stages
Buffered ==
  orch.wip["molten_metal_kg"] \div 10 + orch.wip["degassed_metal_kg"] \div 10
    + orch.wip["cast_parts"] + orch.wip["heat_treated_parts"]
    + orch.wip["machined_parts"] + orch.wip["painted_parts"]
    + orch.wip["xray_passed"] + orch.wip["qc_passed"]

\* C7: material is conserved: the 10 kg units taken from ingot stock equal the
\* units held in the stage machines, plus those in the WIP buffers, plus
\* total_scrap, plus total_wheels_produced.
C7_MaterialConserved ==
  RanStep =>
    orch.kpis.total_ingots_consumed \div 10 =
      HeldFrom(1) + Buffered + orch.kpis.total_scrap + orch.kpis.total_wheels_produced

\* C8: ingots_kg is never negative, and each batch completion comes after
\* exactly 5 furnace feeds of 10 kg since the previous one (or since session
\* start) and restocks ingots_kg to 50.
C8_FiveFeedsPerBatch ==
  /\ [](orch.wip["ingots_kg"] >= 0)
  /\ [][orch'.kpis.batches_completed # orch.kpis.batches_completed =>
          /\ orch'.kpis.batches_completed = orch.kpis.batches_completed + 1
          /\ orch'.kpis.total_ingots_consumed =
               5 * INGOT_KG_PER_WHEEL * orch'.kpis.batches_completed
          /\ orch'.wip["ingots_kg"] = 50]_vars

C8_Witness ==
  /\ orch.kpis.batches_completed = 2
  /\ orch.kpis.total_ingots_consumed = 100

\* units that have entered a machine so far and not left it unprocessed
Entered(m) ==
  Len(m.queue_in) + (IF m.current_item # NoItem THEN 1 ELSE 0) + m.processed_count

C10_FurnaceReplay ==
  twin.active =>
    /\ machines["m_furnace"].T_current = twin.ms["m_furnace"].T_current
    /\ machines["m_furnace"].processed_count = twin.ms["m_furnace"].processed_count

C10_Witness ==
  /\ twin.active
  /\ RanStep
  /\ orch.kpis.total_scrap >= 1
  /\ twin.o.kpis.total_scrap = 0
  /\ twin.o.kpis.total_wheels_produced >= 1
  /\ machines["m_furnace"].processed_count >= 2

\* C11: two runs given the same commands make the same pass/reject decision
\* for every unit, so scrap_parts, xray_passed and qc_passed agree in both
\* runs after every tick.
C11_SameRejectDecisions ==
  twin.active =>
    \A k \in {"scrap_parts", "xray_passed", "qc_passed"} : orch.wip[k] = twin.o.wip[k]

(***************************************************************************)
(* Exceptions raised inside step().                                        *)
(***************************************************************************)
\* the step about to run raises, whatever the reject draws
StepRaises ==
  \A d \in Draws : StepPlant(Plant, sim_time, d[1], d[2], d[3]).exc # "none"

AtTick ==
  IF orch.created THEN Plant ELSE [Plant EXCEPT !.o = NewOrchestrator(sim_time)]

\* the plant _process_low_material_flow finds in a step drawing d
AtFeed(d) == tick_collected(AtTick, sim_time, d[2], d[3])

\* the plant _check_batch_lifecycle finds in a step drawing d
AtBatchCheck(d) == tick_accounted(AtTick, sim_time, d[2], d[3])

\* r differs from q in the batch bookkeeping alone
BatchBookkeepingOnly(q, r) ==
  /\ r.o.kpis.batches_completed = q.o.kpis.batches_completed + 1
  /\ r.o.batch_id = q.o.batch_id + 1
  /\ r.o.wip["ingots_kg"] = 50
  /\ \A k \in WIP_KEYS \ {"ingots_kg"} : r.o.wip[k] = q.o.wip[k]
  /\ \A id \in DOMAIN q.ms :
       /\ r.ms[id].queue_in = q.ms[id].queue_in
       /\ r.ms[id].queue_out = q.ms[id].queue_out
       /\ r.ms[id].current_item = q.ms[id].current_item

\* C19: the batch-lifecycle step that finds ingots_kg at zero raises
\* batches_completed and batch_id by 1 and restocks ingots_kg to 50, leaving
\* every other WIP entry, every machine queue and every current_item as it
\* found them; the tick that completes a batch shows the same bookkeeping.
C19_BatchChangeFrame ==
  /\ [](\A d \in Draws :
          AtBatchCheck(d).o.wip["ingots_kg"] <= 0 =>
            BatchBookkeepingOnly(AtBatchCheck(d), check_batch_lifecycle(AtBatchCheck(d))))
  /\ [][orch'.kpis.batches_completed # orch.kpis.batches_completed =>
          /\ orch'.batch_id = orch.batch_id + 1
          /\ orch'.wip["ingots_kg"] = 50
          /\ orch'.wip["molten_metal_kg"] + orch'.wip["degassed_metal_kg"]
               + 10 * Len(machines'["m_furnace"].queue_in)
               + (IF machines'["m_furnace"].current_item # NoItem THEN 10 ELSE 0) > 0]_vars

\* the last ingots are about to be fed while metal and parts are in flight
C19_Witness ==
  /\ is_running
  /\ ticks < MaxBatchTicks
  /\ \E d \in Draws :
       /\ AtBatchCheck(d).o.wip["ingots_kg"] = 0
       /\ AtBatchCheck(d).o.wip["degassed_metal_kg"] > 0
       /\ AtBatchCheck(d).ms["m_lpdc"].current_item # NoItem
       /\ AtBatchCheck(d).o.kpis.batches_completed = 1

\* the furnace stage took 10 kg of ingots
FurnaceFed(q, r) == r.o.wip["ingots_kg"] = q.o.wip["ingots_kg"] - 10

\* C20: the furnace stage takes 10 kg of ingots if and only if ingots_kg >= 10,
\* the furnace is idle and degassed_metal_kg does not exceed 50.
C20_BottleneckGuard ==
  \A d \in Draws :
    FurnaceFed(AtFeed(d), FeedFurnace(AtFeed(d))) <=>
      /\ AtFeed(d).o.wip["ingots_kg"] >= 10
      /\ is_idle(AtFeed(d), "m_furnace")
      /\ AtFeed(d).o.wip["degassed_metal_kg"] <= BUFFER_LIMIT_KG

(***************************************************************************)
(* The CNC's missed-trigger watchdog.                                      *)
(***************************************************************************)
\* a unit waits in the machine's queue_in with no trigger to load it
Stalled(m) == m.queue_in # <<>> /\ m.current_item = NoItem /\ ~m.cmd_trigger

\* C21: a step that finds the CNC with queued input, no current item and no
\* trigger re-issues the trigger in its orchestrator tick: a CNC that is
\* RUNNING loads the queued unit in that same step, and one that is not
\* RUNNING is left with the trigger set, so the stall never outlasts a step.
C21_MissedTriggerRecovered ==
  [][(/\ last'.op = "step" /\ last'.ret
      /\ "m_cnc" \in DOMAIN machines
      /\ Stalled(machines["m_cnc"])) =>
       IF machines["m_cnc"].state = "RUNNING"
       THEN /\ Len(machines'["m_cnc"].queue_in) = Len(machines["m_cnc"].queue_in) - 1
            /\ \/ machines'["m_cnc"].current_item # NoItem
               \/ machines'["m_cnc"].processed_count = machines["m_cnc"].processed_count + 1
       ELSE machines'["m_cnc"].cmd_trigger]_vars

\* the step after a unit was handed to a RUNNING CNC without a trigger: the
\* unit is in the spindle, no heat-treated part having been fed so far
C21_Witness ==
  /\ RanStep
  /\ drv.items = 1
  /\ machines["m_cnc"].state = "RUNNING"
  /\ machines["m_cnc"].current_item = "HTPart"
  /\ machines["m_cnc"].queue_in = <<>>
  /\ ~machines["m_cnc"].cmd_trigger
  /\ orch.wip["cast_parts"] = 0
  /\ machines["m_heat"].processed_count = 0

(***************************************************************************)
(* The KPI snapshot.                                                       *)
(***************************************************************************)
\* C22: after every orchestrator tick the KPI snapshot agrees with the
\* counters of that tick: with produced + scrap > 0 the yield is
\* produced / (produced + scrap) x 100, between 0 and 100, and with a positive
\* elapsed time the throughput is produced per elapsed hour (yield in
\* thousandths of a percent, time in ms, both rounded down).
C22_KpiSnapshotConsistent ==
  orch.created =>
    LET k       == orch.kpis
        total   == k.total_wheels_produced + k.total_scrap
        elapsed == orch.last_sim_time - orch.session_start_time
    IN  /\ total > 0 =>
             /\ k.yield_percent = (k.total_wheels_produced * 100000) \div total
             /\ k.yield_percent >= 0
             /\ k.yield_percent <= 100000
        /\ elapsed > 0 =>
             k.throughput_wheels_hr = (k.total_wheels_produced * 3600000) \div elapsed

\* wheels shipped and parts scrapped: a yield strictly between 0 and 100
C22_Witness ==
  /\ RanStep
  /\ orch.kpis.total_wheels_produced >= 1
  /\ orch.kpis.total_scrap >= 1
  /\ orch.kpis.yield_percent > 0
  /\ orch.kpis.yield_percent < 100000
  /\ orch.kpis.throughput_wheels_hr > 0

(***************************************************************************)
(* The orchestrator's read accessors.                                      *)
(***************************************************************************)
\* the returned maps whose entries differ between the two states
ChangedSnapshots(ss, o, tt, u) ==
  {j \in 1..Len(ss) : Seen(tt[j], u) # Seen(ss[j], o)}

\* C23: get_wip_state() and get_kpis() hand out copies: the returned map
\* shows the orchestrator's entries of that moment; a write into a returned
\* map changes that map alone, not the orchestrator (so none of its later
\* flow decisions) and no other returned map; and a later tick changes no
\* map returned before it.
C23_SnapshotsAreCopies ==
  /\ [][last'.op \in {"get_wip_state", "get_kpis"} =>
          /\ orch' = orch
          /\ Seen(snapshots'[Len(snapshots')], orch') =
               (IF last'.op = "get_wip_state" THEN orch.wip ELSE orch.kpis)
          /\ ChangedSnapshots(snapshots, orch, snapshots', orch') = {}]_vars
  /\ [][last'.op = "mutate" =>
          /\ orch' = orch
          /\ Seen(snapshots'[last'.trail[3]], orch')[last'.trail[1]] = last'.trail[2]
          /\ ChangedSnapshots(snapshots, orch, snapshots', orch') \subseteq
               {last'.trail[3]}]_vars
  /\ [][last'.op \in {"step", "scan"} =>
          ChangedSnapshots(snapshots, orch, snapshots', orch') = {}]_vars

\* a WIP map whose ingots were overwritten with 0 and a KPI map taken at 10 kg
\* consumed, both unchanged after a step that fed the furnace a second time
C23_Witness ==
  /\ RanStep
  /\ Len(snapshots) = 2
  /\ \E i \in 1..2 :
       /\ snapshots[i].of = "wip"
       /\ snapshots[i].writes = 1
       /\ snapshots[i].val["ingots_kg"] = 0
  /\ \E i \in 1..2 :
       /\ snapshots[i].of = "kpis"
       /\ snapshots[i].val.total_ingots_consumed = 10
  /\ orch.kpis.total_ingots_consumed = 20
  /\ orch.wip["ingots_kg"] = 30

(***************************************************************************)
(* The event dispatcher and the counters.                                  *)
(***************************************************************************)
\* the callbacks subscribed to an event type, in subscription order
Subscribed(d, t) == IF t \in DOMAIN d.subscribers THEN d.subscribers[t] ELSE <<>>

\* how often callback cb occurs in the list cbs
Occurrences(cbs, cb) == Cardinality({i \in 1..Len(cbs) : cbs[i] = cb})

\* C24: emit() appends the event to the log and, before it returns, has
\* called the callbacks subscribed to the event's type, each subscription
\* once and in subscription order, and no callback of another type (the
\* flow-engine handler's counter has moved by the time emit returns); the
\* log lists the events in the order they were emitted.
C24_EmitSynchronousOrdered ==
  /\ [][last'.op = "emit" =>
          /\ get_event_log(flow'.dispatcher) =
               Append(get_event_log(flow.dispatcher),
                      [type |-> last'.id, timestamp |-> drv'.emits])
          /\ last'.trail = Subscribed(flow.dispatcher, last'.id)
          /\ flow'.dispatcher.subscribers = flow.dispatcher.subscribers
          /\ get(flow'.counters, "lpdc_cast") = get(flow.counters, "lpdc_cast")
               + Occurrences(last'.trail, "_on_lpdc_complete")
          /\ get(flow'.counters, "xray_fail") = get(flow.counters, "xray_fail")
               + Occurrences(last'.trail, "_on_xray_fail")]_vars
  /\ [](\A i, j \in 1..Len(flow.dispatcher.event_log) :
          i < j => flow.dispatcher.event_log[i].timestamp
                     < flow.dispatcher.event_log[j].timestamp)

\* an emit that called the flow-engine handler and then two client callbacks
\* subscribed in the order b, a, with an earlier event of another type logged
C24_Witness ==
  /\ last.op = "emit"
  /\ last.id = "LPDC_CYCLE_COMPLETE"
  /\ last.trail = <<"_on_lpdc_complete", "probe_b", "probe_a">>
  /\ Len(flow.dispatcher.event_log) = 2
  /\ flow.dispatcher.event_log[1].type = "XRAY_FAIL"
  /\ get(flow.counters, "lpdc_cast") = 1

\* C25: the value get(name) returns never decreases, whatever CounterSystem
\* operation or flow-engine handler runs.
C25_CountersMonotonic ==
  [][\A n \in CounterNames : get(flow'.counters, n) >= get(flow.counters, n)]_vars

(***************************************************************************)
(* The LPDC physics model.                                                 *)
(***************************************************************************)
\* the call just made was a step() of the physics model named
StepOf(l, model) == l.op = "step" /\ l.id = model

\* C26: a step() changes the LPDC state only IDLE to FILLING (with a pour
\* request), FILLING to HOLDING (fill height at 100), HOLDING to SOLIDIFYING
\* (hold time elapsed), SOLIDIFYING to COMPLETE (solidification at 100) and
\* COMPLETE to IDLE (with a reset request), so no state of a cycle is
\* skipped; and the fill height does not decrease while FILLING.
C26_LpdcStateOrder ==
  [][StepOf(last', "lpdc") =>
       /\ \/ physics'.state = physics.state
          \/ /\ physics.state = "IDLE" /\ physics'.state = "FILLING"
             /\ last'.trail[1]
          \/ /\ physics.state = "FILLING" /\ physics'.state = "HOLDING"
             /\ physics'.fill_height = 100000
          \/ /\ physics.state = "HOLDING" /\ physics'.state = "SOLIDIFYING"
             /\ physics.timer + last'.trail[3] >= hold_time
          \/ /\ physics.state = "SOLIDIFYING" /\ physics'.state = "COMPLETE"
             /\ physics'.solidification_progress = 100000
          \/ /\ physics.state = "COMPLETE" /\ physics'.state = "IDLE"
             /\ last'.trail[2]
       /\ physics.state = "FILLING" => physics'.fill_height >= physics.fill_height]_vars

\* the reset request that ends a completed cycle
C26_Witness ==
  /\ StepOf(last, "lpdc")
  /\ last.trail[2]
  /\ physics.state = "IDLE"
  /\ physics.pressure = 0
  /\ physics.timer = solidification_time
  /\ physics.fill_height = 0

\* C27: outside IDLE a pour request changes nothing: the step with
\* pour_request true leaves the same state, fill height, timer and
\* solidification progress as the step with pour_request false; and a step
\* leaves COMPLETE only with reset_request true.
C27_LpdcRequestsGated ==
  /\ [](physics.model = "lpdc" /\ physics.state # "IDLE" =>
          \A dt \in PhysicsDts, inputs \in LpdcInputs :
            lpdc_step(physics, dt, [inputs EXCEPT !.pour_request = TRUE]) =
            lpdc_step(physics, dt, [inputs EXCEPT !.pour_request = FALSE]))
  /\ [][(StepOf(last', "lpdc") /\ physics.state = "COMPLETE"
           /\ physics'.state # "COMPLETE") => last'.trail[2]]_vars

\* a step with a pour request and no reset request found the cycle COMPLETE
\* and left it there
C27_Witness ==
  /\ StepOf(last, "lpdc")
  /\ last.trail[1] /\ ~last.trail[2]
  /\ physics.state = "COMPLETE"
  /\ ~physics.cycle_running
  /\ physics.fill_height = 100000

(***************************************************************************)
(* The CNC physics model.                                                  *)
(***************************************************************************)
\* a step() starts a job only with a trigger, no job active and progress 0
CncStartGuarded ==
  [][(StepOf(last', "cnc") /\ ~physics.job_active /\ physics'.job_active) =>
       last'.trail[1] /\ physics.progress = 0]_vars

\* a trigger in the middle of a job or after its completion changes nothing
CncTriggerIgnored ==
  [](physics.model = "cnc" /\ (physics.job_active \/ physics.progress # 0) =>
       \A dt \in PhysicsDts, inputs \in CncInputs :
         cnc_step(physics, dt, [inputs EXCEPT !.trigger = TRUE]) =
         cnc_step(physics, dt, [inputs EXCEPT !.trigger = FALSE]))

\* the step() that ends a job leaves progress at 100 and busy false
CncJobEndsAtHundred ==
  [][(StepOf(last', "cnc") /\ physics.job_active /\ ~physics'.job_active) =>
       physics'.progress = 100000 /\ ~physics'.busy]_vars

\* progress returns to 0 only by reset() or a step() with a reset request
CncProgressKept ==
  [][(physics.model = "cnc" /\ physics.progress # 0 /\ physics'.progress = 0) =>
       \/ last'.op = "reset"
       \/ StepOf(last', "cnc") /\ last'.trail[2]]_vars

\* a reset request handed to step() while a job is active changes nothing
CncResetIgnoredInJob ==
  [](physics.model = "cnc" /\ physics.job_active =>
       \A dt \in PhysicsDts, inputs \in CncInputs :
         cnc_step(physics, dt, [inputs EXCEPT !.reset_request = TRUE]) =
         cnc_step(physics, dt, [inputs EXCEPT !.reset_request = FALSE]))

\* C28: the CNC cycle protocol: a trigger starts a job only when none is
\* active and progress is exactly 0; a trigger mid-job or after completion
\* has no effect; a job ends with progress exactly 100, busy false and
\* job_active false; progress returns to 0 only through a reset request or
\* reset(); and a reset request during an active job is ignored.
C28_CncCycleProtocol ==
  /\ CncStartGuarded
  /\ CncTriggerIgnored
  /\ CncJobEndsAtHundred
  /\ CncProgressKept
  /\ CncResetIgnoredInJob

(***************************************************************************)
(* The thermal and the cooling model.                                      *)
(***************************************************************************)
\* C29: whatever heater power step() is given (values outside [0, 100] are
\* clamped), the temperature after every step lies in [T_min, T_max] and the
\* heating rate of the step is at most max_ramp_rate in magnitude; and at
\* full power the temperature rises at every step until it is T_max.
C29_ThermalLimits ==
  /\ [](physics.model = "furnace" =>
          /\ T_min <= physics.T_current /\ physics.T_current <= T_max
          /\ -max_ramp_rate <= physics.heating_rate
          /\ physics.heating_rate <= max_ramp_rate)
  /\ [][(StepOf(last', "furnace") /\ last'.trail[1] >= 100) =>
          \/ physics'.T_current > physics.T_current
          \/ physics.T_current = T_max /\ physics'.T_current = T_max]_vars

\* a 5 s step asked for more than full power, found the furnace below T_max
\* and would have heated it past T_max: it ended at T_max
C29_Witness ==
  /\ StepOf(last, "furnace")
  /\ last.trail[1] = 150
  /\ last.trail[2] = 5000
  /\ last.trail[3] < T_max
  /\ last.trail[3] + 5 * physics.heating_rate > T_max
  /\ physics.T_current = T_max

\* C30: after every step, whatever coolant flow (clamped to [0, 1]) and
\* whatever initial temperature it is given, the part is not colder than the
\* coolant; and from one step to the next with the same coolant flow and no
\* temperature handed over, the reported cooling rate does not increase.
C30_CoolingLimits ==
  /\ [](physics.model = "cooling" => physics.T_part >= T_coolant)
  /\ [][(/\ StepOf(last, "cooling") /\ StepOf(last', "cooling")
         /\ last'.trail[1] = last.trail[1]
         /\ last'.trail[2] = NoTemp) =>
          physics'.cooling_rate <= physics.cooling_rate]_vars

\* a second step at full flow found the part warmer than the coolant, would
\* have cooled it below the coolant and held it at the coolant's temperature
C30_Witness ==
  /\ StepOf(last, "cooling")
  /\ last.trail[1] = 1000 /\ last.trail[2] = NoTemp /\ last.trail[3] = 30000
  /\ last.trail[4] > T_coolant /\ last.trail[4] < T_part_initial
  /\ physics.T_part = T_coolant
  /\ physics.cooling_rate = 0

(***************************************************************************)
(* Construction.                                                           *)
(***************************************************************************)
\* C31: no machine with a cycle time of zero or less exists: its
\* construction fails, so no tick divides by a non-positive cycle time.
C31_NonPositiveCycleTimeFatal ==
  /\ [](\A id \in DOMAIN machines : machines[id].cycle_time > 0)
  /\ [][last'.op = "tick" => last'.trail # <<"ZeroDivisionError">>]_vars

(***************************************************************************)
(* The PLC power state.                                                    *)
(***************************************************************************)
\* C32: the power state changes only from OFF through STARTING to RUNNING
\* and from RUNNING through STOPPING to OFF, each within one scan; Start is
\* honoured in OFF only and Stop in RUNNING only, and elsewhere they leave
\* the power state as it is; and step() runs only in a scan whose power
\* state is RUNNING.
C32_PowerStateMachine ==
  /\ [][power_state' # power_state =>
          /\ last'.op = "scan"
          /\ \/ /\ power_state = "OFF" /\ last'.trail = <<"STARTING">>
                /\ power_state' = "RUNNING"
             \/ /\ power_state = "RUNNING" /\ last'.trail = <<"STOPPING">>
                /\ power_state' = "OFF"]_vars
  /\ [][last'.op = "scan" =>
          power_state' = (CASE last'.trail = <<"STARTING">> -> "RUNNING"
                            [] last'.trail = <<"STOPPING">> -> "OFF"
                            [] OTHER -> power_state)]_vars
  /\ [](\A start \in BOOLEAN, stop \in BOOLEAN :
          /\ (power_state = "OFF" /\ start) =>
               handle_power_inputs(power_state, start, stop) = "STARTING"
          /\ (power_state = "RUNNING" /\ stop) =>
               handle_power_inputs(power_state, start, stop) = "STOPPING"
          /\ power_state # "OFF" =>
               handle_power_inputs(power_state, TRUE, stop) =
               handle_power_inputs(power_state, FALSE, stop)
          /\ power_state # "RUNNING" =>
               handle_power_inputs(power_state, start, TRUE) =
               handle_power_inputs(power_state, start, FALSE))
  /\ [][(last'.op = "step" /\ last'.ret) =>
          power_state = "RUNNING" /\ power_state' = "RUNNING"]_vars

\* the PLC was started, stepped the line and has been stopped again
C32_Witness ==
  /\ last.op = "scan"
  /\ last.trail = <<"STOPPING">>
  /\ power_state = "OFF"
  /\ ncmd.plc = 2
  /\ ticks > 0

(***************************************************************************)
(* The engine's tag dictionary.                                            *)
(***************************************************************************)
\* C33: in every engine state get_all_tags() returns every machine's tags,
\* one Plant.WIP entry for each WIP key and one Plant.KPI entry for each
\* KPI, and the call changes no engine, orchestrator or machine state.
C33_AllTagsComplete ==
  /\ [](get_all_tags(machines, orch).tags =
          MachineTagNames(machines)
            \union {<<"Plant.WIP", k>> : k \in WIP_KEYS}
            \union {<<"Plant.KPI", k>> : k \in KPI_KEYS})
  /\ [][last'.op = "get_all_tags" =>
          /\ last'.ret
          /\ UNCHANGED <<machines, orch, ticks, sim_time, power_state>>]_vars

(***************************************************************************)
(* Units within one step.                                                  *)
(***************************************************************************)
\* the units machine id finished in the step just taken
FinishedInStep(id) == machines'[id].processed_count - machines[id].processed_count

\* C34: a unit advances through at most one machine per step: in a step
\* that ran, a machine finishes at most one unit, and every unit a machine
\* finished in the step is still in that machine's queue_out (or
\* queue_reject) when the step returns, so the orchestrator collects it in
\* a later step and no other machine loads or processes it in this one.
C34_SameTickIsolation ==
  [][ticks' = ticks + 1 =>
       \A id \in DOMAIN machines :
         /\ FinishedInStep(id) \in {0, 1}
         /\ Len(machines'[id].queue_out) + Len(machines'[id].queue_reject)
              >= FinishedInStep(id)
         /\ Len(machines'[id].queue_out) + Len(machines'[id].queue_reject) <= 1]_vars

\* the step just taken finished a casting that waits at the LPDC for the
\* next step's collection, while the degasser upstream works on a later unit
C34_Witness ==
  /\ ticks > 0
  /\ Len(machines["m_lpdc"].queue_out) = 1
  /\ machines["m_lpdc"].processed_count >= 1
  /\ machines["m_degasser"].current_item # NoItem

(***************************************************************************)
(* The WIP tracker of the material flow engine.                            *)
(***************************************************************************)
\* the parts the tracker holds in the stages of S
RECURSIVE CountIn(_, _)
CountIn(w, S) ==
  IF S = {} THEN 0
  ELSE LET st == CHOOSE x \in S : TRUE
       IN  Len(w[st]) + CountIn(w, S \ {st})

\* WIPTracker.get_all_counts, summed
TotalWip(w) == CountIn(w, DOMAIN w)

\* C35: the completion handlers move parts and never create one: the WIP
\* tracker never holds more parts than INGOT_RECEIVED events were emitted,
\* and an event other than INGOT_RECEIVED never raises the tracker's total
\* (on a pass one part changes bucket, on a reject one part leaves, and a
\* completion for an empty bucket adds nothing downstream).
C35_HandlersMoveParts ==
  /\ [](TotalWip(flow.wip) <= get(flow.counters, "inbound_received"))
  /\ [][(last'.op = "emit" /\ last'.id # "INGOT_RECEIVED") =>
          TotalWip(flow'.wip) <= TotalWip(flow.wip)]_vars

(***************************************************************************)
(* External writes and the scan.                                           *)
(***************************************************************************)
\* a client has written TRUE to the pour request node since the last scan
PourWritten ==
  /\ <<"m_lpdc", "PourRequest">> \in DOMAIN drv.written
  /\ drv.written[<<"m_lpdc", "PourRequest">>]

\* C36: an external write reaches a machine only in the input phase of a
\* scan, which precedes the scan's step(): the write itself changes no
\* machine, orchestrator or clock; a scan that does not change the power
\* state has applied a written pour request when it ends; and a scan that
\* steps has applied it before the step, so an idle running LPDC starts its
\* cycle in that very step and the request is consumed.
C36_WritesReachMachinesInInputScan ==
  /\ [][last'.op = "write_node" =>
          UNCHANGED <<machines, orch, ticks, sim_time, power_state>>]_vars
  /\ [][(last'.op = "scan" /\ power_state' = power_state /\ PourWritten) =>
          machines'["m_lpdc"].cmd_pour_request]_vars
  /\ [][(/\ ticks' = ticks + 1
         /\ PourWritten
         /\ machines["m_lpdc"].state = "RUNNING"
         /\ machines["m_lpdc"].current_item = NoItem) =>
          /\ ~machines'["m_lpdc"].cmd_pour_request
          /\ \/ machines'["m_lpdc"].current_item # NoItem
             \/ machines'["m_lpdc"].processed_count
                  = machines["m_lpdc"].processed_count + 1]_vars

\* a pour request written between two scans of the running PLC: the second
\* scan's step found it and started a shot
C36_Witness ==
  /\ last.op = "step"
  /\ ticks >= 2
  /\ ncmd.machine >= 1
  /\ machines["m_lpdc"].current_item = "MoltenMetal_Shot"
  /\ ~machines["m_lpdc"].cmd_pour_request
  /\ drv.written = NoWrites

(***************************************************************************)
(* Batch accounting.                                                       *)
(***************************************************************************)
\* C38: after every orchestrator tick batch_id = batches_completed + 1, the
\* ingot stock is 10, 20, 30, 40 or 50 kg (never zero between ticks), and
\* total_ingots_consumed = 50 * batches_completed + (50 - ingots_kg).
C38_BatchAccounting ==
  orch.created =>
    /\ orch.batch_id = orch.kpis.batches_completed + 1
    /\ orch.wip["ingots_kg"] \in {10, 20, 30, 40, 50}
    /\ orch.kpis.total_ingots_consumed
         = BATCH_SIZE_KG * orch.kpis.batches_completed
             + (BATCH_SIZE_KG - orch.wip["ingots_kg"])

\* the second batch has been completed and the third is partly consumed
C38_Witness ==
  /\ RanStep
  /\ orch.kpis.batches_completed = 2
  /\ orch.batch_id = 3
  /\ orch.wip["ingots_kg"] = 30

(***************************************************************************)
(* The orchestrator tick on a partial line.                                *)
(***************************************************************************)
\* C39: ProductionOrchestrator.tick() returns without raising whatever
\* machines the collection holds: in every reachable state of a line with
\* stage machines left out, the next tick completes for every reject draw.
C39_TickNeverRaises ==
  \A d \in Draws :
    orchestrator_tick(AtTick, time_step, sim_time, d[2], d[3]).exc = "none"

(***************************************************************************)
(* The over-temperature fault of the ThermalMachine.                       *)
(***************************************************************************)
\* temperatures a thermal machine's physics may hold: the machine's own,
\* the safety limit and the temperatures just below it
HotTemps(m) == {m.T_current, T_max - 5000, T_max - 1000, T_max}

\* C40: a ThermalMachine is never FAULTED with fault_code 201: its
\* temperature stays at or below the physics limit T_max, which lies below
\* the threshold of the fault predicate, whatever the heater power of the
\* next step; a FAULTED thermal machine carries code 101 or 102.
C40_NoOverTempFault ==
  \A id \in DOMAIN machines :
    Kind(id) = "thermal" =>
      /\ machines[id].T_current <= T_max
      /\ T_max < OverTempLimit
      /\ ~detect_fault(id, machines[id])
      /\ \A T \in HotTemps(machines[id]), pct \in {0, 50, 100} :
           /\ PhysicsStep(T, pct, time_step) <= T_max
           /\ ~detect_fault(id, [machines[id] EXCEPT
                                   !.T_current = PhysicsStep(T, pct, time_step)])
      /\ machines[id].state = "FAULTED" => machines[id].fault_code \in {101, 102}

\* a furnace that has been heated by ticks and then faulted on a start
\* command given while it was not enabled
C40_Witness ==
  /\ TheId = "m_furnace"
  /\ TheMachine.state = "FAULTED"
  /\ TheMachine.fault_code = 101
  /\ TheMachine.T_current > T_ambient
  /\ drv.ticks >= 2

(***************************************************************************)
(* Progress of the line.                                                   *)
(***************************************************************************)
\* the 10 kg units taken from the ingot stock so far
UnitsTaken == IF orch.created THEN orch.kpis.total_ingots_consumed \div INGOT_KG_PER_WHEEL ELSE 0

\* the units that have left the line as a wheel or as scrap
UnitsCounted ==
  IF orch.created THEN orch.kpis.total_wheels_produced + orch.kpis.total_scrap ELSE 0

=============================================================================
